---------------------------- MODULE Spec2Model ----------------------------
(***************************************************************************)
(* Verification model of the EnergyPlus weather manager                    *)
(* (src/src/EnergyPlus/WeatherManager.cc): calendar resolver, weather-file *)
(* day reader and environment scheduler.                                   *)
(***************************************************************************)
EXTENDS Integers, Sequences, FiniteSets, TLC

(***************************************************************************)
(* Bounds of the model                                                     *)
(***************************************************************************)
MaxSearchPasses == 740
MaxResets == 1
MaxWarmupDays == 2

(***************************************************************************)
(* Program constants                                                       *)
(***************************************************************************)
MonthDay == 1
NthDayInMonth == 2
LastDayInMonth == 3
NumDaysInYear == 365
(* int LeapYearAdd(0), and clear_state *)
InitialLeapYearAdd == 0
ksDesignDay == 1
ksRunPeriodDesign == 2
ksRunPeriodWeather == 3

EndDayOfMonth == <<31, 28, 31, 30, 31, 30, 31, 31, 30, 31, 30, 31>>

Months == 1..12
JDays == 1..366
ZeroMonths == [m \in Months |-> 0]
ZeroDays == [d \in JDays |-> 0]

(***************************************************************************)
(* Integer helpers: C++ division truncates toward zero, mod() of ObjexxFCL *)
(* is the remainder of that division.                                      *)
(***************************************************************************)
TruncDiv(a, b) == IF a >= 0 THEN a \div b ELSE -((-a) \div b)

mod(a, b) == a - b * TruncDiv(a, b)

(* while (CurWeekDay > 7) CurWeekDay -= 7; *)
RECURSIVE WrapOver7(_)
WrapOver7(w) == IF w > 7 THEN WrapOver7(w - 7) ELSE w

(* while (CurWeekDay <= 0) CurWeekDay += 7; *)
RECURSIVE WrapUnder1(_)
WrapUnder1(w) == IF w <= 0 THEN WrapUnder1(w + 7) ELSE w

(* a step back that goes one day too far *)
StepBackDaysOneTooMany(w, n) == ((w - 1 - (n + 1)) % 7) + 1

(* for (Loop = 1; Loop <= StDay - 1; ++Loop) { --CurWeekDay; if (CurWeekDay == 0) CurWeekDay = 7; } *)
RECURSIVE StepBackDays(_, _)
StepBackDays(w, n) ==
    IF n <= 0 THEN w
    ELSE StepBackDays(IF w - 1 = 0 THEN 7 ELSE w - 1, n - 1)

any_eq(arr, v) == \E i \in DOMAIN arr : arr[i] = v

(***************************************************************************)
(* Calendar utility                                                        *)
(***************************************************************************)
(* a leap year every fourth year, century years included *)
isLeapYearEveryFourth(Year) == mod(Year, 4) = 0

isLeapYear(Year) ==
    IF mod(Year, 4) = 0
    THEN ~(mod(Year, 100) = 0 /\ mod(Year, 400) # 0)
    ELSE FALSE

daysbefore == <<0, 31, 59, 90, 120, 151, 181, 212, 243, 273, 304, 334>>
daysbeforeleap == <<0, 31, 60, 91, 121, 152, 182, 213, 244, 274, 305, 335>>

calculateDayOfYear(Month, Day, leapYear) ==
    IF leapYear THEN daysbeforeleap[Month] + Day ELSE daysbefore[Month] + Day

calculateDayOfWeek(year, month, day) ==
    LET Gmm == IF month < 3 THEN month + 12 ELSE month
        Gyyyy == IF month < 3 THEN year - 1 ELSE year
        dow == mod(day + TruncDiv(13 * (Gmm + 1), 5) + Gyyyy + TruncDiv(Gyyyy, 4)
                     + 6 * TruncDiv(Gyyyy, 100) + TruncDiv(Gyyyy, 400), 7)
    IN  IF dow = 0 THEN 7 ELSE dow

computeJulianDate(gyyyy, gmm, gdd) ==
    LET l == TruncDiv(gmm - 14, 12)
    IN  gdd - 32075 + TruncDiv(1461 * (gyyyy + 4800 + l), 4)
            + TruncDiv(367 * (gmm - 2 - l * 12), 12)
            - TruncDiv(3 * TruncDiv(gyyyy + 4900 + l, 100), 4)

validMonthDay(month, day, leapYearAdd) ==
    CASE month \in {1, 3, 5, 7, 8, 10, 12} -> ~(day > 31)
      [] month \in {4, 6, 9, 11} -> ~(day > 30)
      [] month = 2 -> ~(day > 28 + leapYearAdd)
      [] OTHER -> FALSE

(* years of the Gregorian calendar over which dates are checked: the first *)
(* ones, century years of both kinds, and recent ones                      *)
DateYears == (1583..1586) \cup {1600, 1700, 1900, 2000} \cup (2015..2024)

(* General::OrdinalDay: day of year of month/day, leap day counted when    *)
(* LeapYearValue is 1.                                                      *)
OrdinalDay(Month, Day, LeapYearValue) ==
    IF Month <= 2 THEN daysbefore[Month] + Day
    ELSE daysbefore[Month] + Day + LeapYearValue

(* General::BetweenDates: TestDate lies in StartDate..EndDate, a range     *)
(* whose end precedes its start wraps around the end of the year.          *)
BetweenDates(TestDate, StartDate, EndDate) ==
    IF StartDate <= EndDate
    THEN TestDate >= StartDate /\ TestDate <= EndDate
    ELSE TestDate <= EndDate \/ TestDate >= StartDate

(***************************************************************************)
(* Calendar resolver: weekday of the 1st of each month                     *)
(***************************************************************************)
(* forward loop shared by SetupWeekDaysByMonth and ResetWeekDaysByMonth *)
RECURSIVE WalkForward(_, _, _, _)
WalkForward(WeekDays, Loop, CurWeekDay, LeapYearAdd) ==
    IF Loop > 12 THEN WeekDays
    ELSE LET c == WrapOver7(
                    IF Loop = 2 THEN CurWeekDay + EndDayOfMonth[1]
                    ELSE IF Loop = 3 THEN CurWeekDay + EndDayOfMonth[Loop - 1] + LeapYearAdd
                    ELSE CurWeekDay + EndDayOfMonth[Loop - 1])
         IN  WalkForward([WeekDays EXCEPT ![Loop] = c], Loop + 1, c, LeapYearAdd)

(* backward loop shared by SetupWeekDaysByMonth and ResetWeekDaysByMonth *)
RECURSIVE WalkBackward(_, _, _, _)
WalkBackward(WeekDays, Loop, CurWeekDay, LeapYearAdd) ==
    IF Loop < 1 THEN WeekDays
    ELSE LET c == WrapUnder1(
                    IF Loop = 1 THEN CurWeekDay - EndDayOfMonth[1]
                    ELSE IF Loop = 2 THEN CurWeekDay - EndDayOfMonth[2] + LeapYearAdd
                    ELSE CurWeekDay - EndDayOfMonth[Loop])
         IN  WalkBackward([WeekDays EXCEPT ![Loop] = c], Loop - 1, c, LeapYearAdd)

SetupWeekDaysByMonth(StMon, StDay, StWeekDay, LeapYearAdd, WeekDays) ==
    LET first == StepBackDays(StWeekDay, StDay - 1)
        fwd == WalkForward([WeekDays EXCEPT ![StMon] = first], StMon + 1, first, LeapYearAdd)
    IN  IF any_eq(fwd, 0)
        THEN WalkBackward(fwd, StMon - 1, StepBackDays(StWeekDay, StDay - 1), LeapYearAdd)
        ELSE fwd

(* GetNextEnvironment 1265-1272 and InitializeWeather 2233-2241: weekday  *)
(* of every day of year from the run period's first day on                 *)
(* the loop visits Loop, Loop+1, ... (366 wrapping to 1) and stops before JDay5End; *)
(* the day at offset k from the first one gets the weekday k days after TWeekDay    *)
FillWeekDayTypes(WeekDayTypes, Loop, JDay5End, TWeekDay) ==
    LET span == IF JDay5End = Loop THEN 366 ELSE (JDay5End - Loop + 366) % 366
    IN  [d \in JDays |->
            LET off == (d - Loop + 366) % 366
            IN  IF off < span THEN ((TWeekDay - 1 + off) % 7) + 1 ELSE WeekDayTypes[d]]

(***************************************************************************)
(* Calendar resolver: daylight saving period                               *)
(***************************************************************************)
ActEndDayOfMonthOf(LeapYearAdd) == [EndDayOfMonth EXCEPT ![2] = EndDayOfMonth[2] + LeapYearAdd]

(* while (ThisDay + 7 <= ActEndDayOfMonth(Mon)) ThisDay += 7; *)
RECURSIVE LastInMonth(_, _)
LastInMonth(ThisDay, last) == IF ThisDay + 7 <= last THEN LastInMonth(ThisDay + 7, last) ELSE ThisDay

(* one end of the DST period: [err, Mon, Day] *)
DSTDate(DateType, Mon, Day, WeekDay, MonWeekDay, LeapYearAdd) ==
    LET last == ActEndDayOfMonthOf(LeapYearAdd)[Mon]
    IN  IF DateType = MonthDay THEN [err |-> FALSE, Mon |-> Mon, Day |-> Day]
        ELSE IF DateType = NthDayInMonth
        THEN LET ThisDay == WrapUnder1(WeekDay - MonWeekDay[Mon] + 1) + 7 * (Day - 1)
             IN  IF ThisDay > last THEN [err |-> TRUE, Mon |-> 0, Day |-> 0]
                 ELSE [err |-> FALSE, Mon |-> Mon, Day |-> ThisDay]
        ELSE [err |-> FALSE, Mon |-> Mon,
              Day |-> LastInMonth(WeekDay - MonWeekDay[Mon] + 1, last)]

(* a resolution that marks the range without clearing the table first *)
SetDSTDateRangesKeepingOld(MonWeekDay, DSTIndex, LeapYearAdd, dst) ==
    LET st == DSTDate(dst.StDateType, dst.StMon, dst.StDay, dst.StWeekDay, MonWeekDay, LeapYearAdd)
        en == DSTDate(dst.EnDateType, dst.EnMon, dst.EnDay, dst.EnWeekDay, MonWeekDay, LeapYearAdd)
        JDay == OrdinalDay(st.Mon, st.Day, LeapYearAdd)
        JDay1 == OrdinalDay(en.Mon, en.Day, LeapYearAdd)
    IN  IF st.err \/ en.err
        THEN [fatal |-> TRUE, DSTIndex |-> DSTIndex, JDay |-> 0, JDay1 |-> 0]
        ELSE [fatal |-> FALSE,
              DSTIndex |-> [d \in JDays |->
                  IF (IF JDay1 >= JDay THEN d >= JDay /\ d <= JDay1 ELSE d >= JDay \/ d <= JDay1)
                  THEN 1 ELSE DSTIndex[d]],
              JDay |-> JDay, JDay1 |-> JDay1]

(* a resolution that marks a wrapping period only up to the end of the year *)
SetDSTDateRangesWithoutWrap(MonWeekDay, DSTIndex, LeapYearAdd, dst) ==
    LET st == DSTDate(dst.StDateType, dst.StMon, dst.StDay, dst.StWeekDay, MonWeekDay, LeapYearAdd)
        en == DSTDate(dst.EnDateType, dst.EnMon, dst.EnDay, dst.EnWeekDay, MonWeekDay, LeapYearAdd)
        JDay == OrdinalDay(st.Mon, st.Day, LeapYearAdd)
        JDay1 == OrdinalDay(en.Mon, en.Day, LeapYearAdd)
    IN  IF st.err \/ en.err
        THEN [fatal |-> TRUE, DSTIndex |-> DSTIndex, JDay |-> 0, JDay1 |-> 0]
        ELSE [fatal |-> FALSE,
              DSTIndex |-> [d \in JDays |->
                  IF (IF JDay1 >= JDay THEN d >= JDay /\ d <= JDay1 ELSE d >= JDay)
                  THEN 1 ELSE 0],
              JDay |-> JDay, JDay1 |-> JDay1]

SetDSTDateRanges(MonWeekDay, DSTIndex, LeapYearAdd, dst) ==
    LET st == DSTDate(dst.StDateType, dst.StMon, dst.StDay, dst.StWeekDay, MonWeekDay, LeapYearAdd)
        en == DSTDate(dst.EnDateType, dst.EnMon, dst.EnDay, dst.EnWeekDay, MonWeekDay, LeapYearAdd)
        JDay == OrdinalDay(st.Mon, st.Day, LeapYearAdd)
        JDay1 == OrdinalDay(en.Mon, en.Day, LeapYearAdd)
        cleared == ZeroDays
    IN  IF st.err \/ en.err
        THEN [fatal |-> TRUE, DSTIndex |-> DSTIndex, JDay |-> 0, JDay1 |-> 0]
        ELSE [fatal |-> FALSE,
              DSTIndex |-> [d \in JDays |->
                  IF (IF JDay1 >= JDay THEN d >= JDay /\ d <= JDay1 ELSE d >= JDay \/ d <= JDay1)
                  THEN 1 ELSE cleared[d]],
              JDay |-> JDay, JDay1 |-> JDay1]

(***************************************************************************)
(* Calendar resolver: special days                                         *)
(***************************************************************************)
(* a weekend rule that leaves the holiday on its date *)
WeekendStepStaying(JDay, LeapYearAdd) == JDay

(* ++JDay; if (JDay == 366 && LeapYearAdd == 0) JDay = 1; *)
WeekendStep(JDay, LeapYearAdd) == IF JDay + 1 = 366 /\ LeapYearAdd = 0 THEN 1 ELSE JDay + 1

(* first day of year of one special day: [err, JDay] *)
SpecialDayStart(sd, MonWeekDay, LeapYearAdd, ApplyWeekendRule, WeekDayTypes) ==
    LET last == ActEndDayOfMonthOf(LeapYearAdd)[sd.Month]
    IN  IF sd.DateType <= MonthDay
        THEN LET JDay == OrdinalDay(sd.Month, sd.Day, LeapYearAdd)
             IN  [err |-> FALSE,
                  JDay |-> IF sd.Duration = 1 /\ ApplyWeekendRule
                           THEN IF WeekDayTypes[JDay] = 1 THEN WeekendStep(JDay, LeapYearAdd)
                                ELSE IF WeekDayTypes[JDay] = 7
                                THEN WeekendStep(WeekendStep(JDay, LeapYearAdd), LeapYearAdd)
                                ELSE JDay
                           ELSE JDay]
        ELSE IF sd.DateType = NthDayInMonth
        THEN LET ThisDay == (IF sd.WeekDay >= MonWeekDay[sd.Month]
                             THEN sd.WeekDay - MonWeekDay[sd.Month] + 1
                             ELSE sd.WeekDay - MonWeekDay[sd.Month] + 1 + 7) + 7 * (sd.Day - 1)
             IN  IF ThisDay > last THEN [err |-> TRUE, JDay |-> 0]
                 ELSE [err |-> FALSE, JDay |-> OrdinalDay(sd.Month, ThisDay, LeapYearAdd)]
        ELSE [err |-> FALSE,
              JDay |-> OrdinalDay(sd.Month,
                                  LastInMonth(sd.WeekDay - MonWeekDay[sd.Month] + 1, last),
                                  LeapYearAdd)]

(* a duration loop that leaves a day already marked as it is *)
RECURSIVE MarkSpecialDaysKeepingFirst(_, _, _, _, _)
MarkSpecialDaysKeepingFirst(acc, JDay1, n, DayType, LeapYearAdd) ==
    IF n <= 0 THEN acc
    ELSE LET j1 == JDay1 + 1
             j2 == IF j1 = 366 /\ LeapYearAdd = 0 THEN 1 ELSE j1
             j3 == IF j2 = 367 THEN 1 ELSE j2
         IN  MarkSpecialDaysKeepingFirst(
                 IF j3 \in JDays
                 THEN IF acc.tab[j3] = 0 THEN [acc EXCEPT !.tab[j3] = DayType] ELSE acc
                 ELSE [acc EXCEPT !.oob = TRUE],
                 j3, n - 1, DayType, LeapYearAdd)

(* for (Loop1 = 0; Loop1 <= Duration - 1; ++Loop1) { ++JDay1; wrap; SpecialDayTypes(JDay1) = DayType; } *)
(* acc = [tab, oob]: a store outside 1..366 is recorded and leaves the table alone *)
RECURSIVE MarkSpecialDays(_, _, _, _, _)
MarkSpecialDays(acc, JDay1, n, DayType, LeapYearAdd) ==
    IF n <= 0 THEN acc
    ELSE LET j1 == JDay1 + 1
             j2 == IF j1 = 366 /\ LeapYearAdd = 0 THEN 1 ELSE j1
             j3 == IF j2 = 367 THEN 1 ELSE j2
         IN  MarkSpecialDays(
                 IF j3 \in JDays THEN [acc EXCEPT !.tab[j3] = DayType]
                 ELSE [acc EXCEPT !.oob = TRUE],
                 j3, n - 1, DayType, LeapYearAdd)

(* the for loop over SpecialDays(Loop); acc = [tab, err, warn, oob] *)
RECURSIVE SpecialDaysLoop(_, _, _, _, _, _, _, _)
SpecialDaysLoop(acc, Loop, SpecialDays, MonWeekDay, LeapYearAdd, UseSpecialDays, ApplyWeekendRule, WeekDayTypes) ==
    IF Loop > Len(SpecialDays) THEN acc
    ELSE LET sd == SpecialDays[Loop]
             st == SpecialDayStart(sd, MonWeekDay, LeapYearAdd, ApplyWeekendRule, WeekDayTypes)
             next(a) == SpecialDaysLoop(a, Loop + 1, SpecialDays, MonWeekDay, LeapYearAdd,
                                        UseSpecialDays, ApplyWeekendRule, WeekDayTypes)
         IN  IF sd.WthrFile /\ ~UseSpecialDays THEN next(acc)
             ELSE IF st.err THEN next([acc EXCEPT !.err = TRUE])
             ELSE LET readOob == st.JDay \notin JDays
                      warned == IF readOob THEN acc.warn
                                ELSE IF acc.tab[st.JDay] # 0 THEN acc.warn \cup {Loop} ELSE acc.warn
                      marked == MarkSpecialDays([tab |-> acc.tab, oob |-> acc.oob \/ readOob],
                                                st.JDay - 1, sd.Duration, sd.DayType, LeapYearAdd)
                  IN  next([tab |-> marked.tab, err |-> acc.err, warn |-> warned, oob |-> marked.oob])

SetSpecialDayDates(MonWeekDay, SpecialDayTypes, LeapYearAdd, SpecialDays, UseSpecialDays, ApplyWeekendRule, WeekDayTypes) ==
    LET r == SpecialDaysLoop([tab |-> ZeroDays, err |-> FALSE, warn |-> {}, oob |-> FALSE],
                             1, SpecialDays, MonWeekDay, LeapYearAdd, UseSpecialDays,
                             ApplyWeekendRule, WeekDayTypes)
    IN  [fatal |-> r.err, SpecialDayTypes |-> r.tab, warn |-> r.warn, oob |-> r.oob]

(***************************************************************************)
(* Calendar resolver: weekday table reset at a repeat or a new year        *)
(***************************************************************************)
ResetWeekDaysByMonth(WeekDays, LeapYearAdd, StartMonth, StartMonthDay, EndMonth, EndMonthDay, Rollover, MidSimReset) ==
    LET CurWeekDay == WrapOver7(
            IF Rollover
            THEN IF StartMonth = 1
                 THEN WeekDays[12] + EndDayOfMonth[12] + StartMonthDay - 1
                 ELSE WeekDays[EndMonth] + EndMonthDay
            ELSE WeekDays[StartMonth])
        fwd == WalkForward([ZeroMonths EXCEPT ![StartMonth] = CurWeekDay], StartMonth + 1,
                           CurWeekDay, LeapYearAdd)
        fromStart == IF any_eq(fwd, 0)
                     THEN WalkBackward(fwd, StartMonth - 1,
                                       StepBackDays(CurWeekDay, StartMonthDay - 1), LeapYearAdd)
                     ELSE fwd
        Jan1 == WrapOver7(WeekDays[12] + EndDayOfMonth[12])
        fromJanuary == WalkForward([ZeroMonths EXCEPT ![1] = Jan1], 2, Jan1, LeapYearAdd)
    IN  IF MidSimReset /\ StartMonth # 1 THEN fromJanuary ELSE fromStart

(* the value CurDayOfWeek gets; the caller keeps its own when EnvironDayOfWeek is 0 *)
SetDayOfWeekInitialValues(EnvironDayOfWeek, CurDayOfWeek) ==
    IF EnvironDayOfWeek # 0
    THEN IF EnvironDayOfWeek <= 7 THEN EnvironDayOfWeek - 1 ELSE EnvironDayOfWeek
    ELSE CurDayOfWeek

(***************************************************************************)
(* Weather file: header and data records                                   *)
(***************************************************************************)
(* the conversion with every division rounding down *)
JGDateToJulianRoundingDown(gyyyy, gmm, gdd) ==
    LET l == (gmm - 14) \div 12
    IN  gdd - 32075 + ((1461 * (gyyyy + 4800 + l)) \div 4)
            + ((367 * (gmm - 2 - l * 12)) \div 12)
            - ((3 * ((gyyyy + 4900 + l) \div 100)) \div 4)

(* JGDate, jflag = 1 (GregorianToJulian) *)
JGDateToJulian(gyyyy, gmm, gdd) ==
    LET l == TruncDiv(gmm - 14, 12)
    IN  gdd - 32075 + TruncDiv(1461 * (gyyyy + 4800 + l), 4)
            + TruncDiv(367 * (gmm - 2 - l * 12), 12)
            - TruncDiv(3 * TruncDiv(gyyyy + 4900 + l, 100), 4)

(* JGDate, jflag = 2 (JulianToGregorian): [yyyy, mm, dd] *)
JGDateToGregorian(jdate) ==
    LET l1 == jdate + 68569
        n == TruncDiv(4 * l1, 146097)
        l2 == l1 - TruncDiv(146097 * n + 3, 4)
        y1 == TruncDiv(4000 * (l2 + 1), 1461001)
        l3 == l2 - TruncDiv(1461 * y1, 4) + 31
        m1 == TruncDiv(80 * l3, 2447)
        dd == l3 - TruncDiv(2447 * m1, 80)
        l4 == TruncDiv(m1, 11)
    IN  [yyyy |-> y1 + 100 * (n - 49) + l4, mm |-> m1 + 2 - 12 * l4, dd |-> dd]

(* one DATA PERIODS entry of the header as ProcessEPWHeader stores it; the *)
(* header is read before any environment has set LeapYearAdd               *)
DataPeriod(StYear, StMon, StDay, EnYear0, EnMon, EnDay, WeekDay) ==
    LET HasYearData == StYear # 0
        EnYear == IF EnYear0 = 0 /\ HasYearData THEN StYear ELSE EnYear0
        noYear == StYear = 0 \/ EnYear = 0
        DataStJDay == IF noYear THEN OrdinalDay(StMon, StDay, InitialLeapYearAdd)
                      ELSE JGDateToJulian(StYear, StMon, StDay)
        DataEnJDay == IF noYear THEN OrdinalDay(EnMon, EnDay, InitialLeapYearAdd)
                      ELSE JGDateToJulian(EnYear, EnMon, EnDay)
    IN  [StMon |-> StMon, StDay |-> StDay, StYear |-> StYear,
         EnMon |-> EnMon, EnDay |-> EnDay, EnYear |-> EnYear,
         HasYearData |-> HasYearData, WeekDay |-> WeekDay,
         DataStJDay |-> DataStJDay, DataEnJDay |-> DataEnJDay,
         NumDays |-> IF noYear /\ DataStJDay > DataEnJDay
                     THEN (365 - DataStJDay + 1) + (DataEnJDay - 1 + 1)
                     ELSE DataEnJDay - DataStJDay + 1,
         MonWeekDay |-> SetupWeekDaysByMonth(StMon, StDay, WeekDay, InitialLeapYearAdd,
                                             ZeroMonths)]

(* A weather file: the header entries and the data records that follow.   *)
(* The records are those of NumDataDays consecutive days from the Julian  *)
(* date FirstDay on, 24 hourly records a day; the last day holds only its *)
(* first records when LastDayComplete is FALSE.                            *)
WeatherFile(periods, FirstDay, NumDataDays, LastDayComplete, AllowsLeapYears, EPWDST) ==
    [DataPeriods |-> periods, FirstDay |-> FirstDay, NumDataDays |-> NumDataDays,
     LastDayComplete |-> LastDayComplete, WFAllowsLeapYears |-> AllowsLeapYears,
     EPWDaylightSaving |-> EPWDST]

(* the date fields WYear, WMonth, WDay of the records of the file's i-th day *)
RecordDate(file, i) ==
    LET g == JGDateToGregorian(file.FirstDay + i - 1)
    IN  [WYear |-> g.yyyy, WMonth |-> g.mm, WDay |-> g.dd]

(* the value the records of the file's i-th day give one array at hour h *)
RecordValue(file, i, h) == 100 * i + h


(***************************************************************************)
(* Environments                                                            *)
(***************************************************************************)
(* a RunPeriod object with start and end year given, as GetRunPeriodData   *)
(* stores it and SetupEnvironmentTypes copies it into Environment(); the   *)
(* start weekday is the one of the start date, whatever the input said.    *)
(* RollDayTypeOnRepeat is not set from the input: it is the default of the *)
(* structure, which is given here.                                         *)
RunPeriod(startMonth, startDay, startYear, endMonth, endDay, endYear, useHolidays, useDST, applyWeekendRule, actualWeather, RollDayTypeOnRepeat, WFAllowsLeapYears) ==
    LET dayOfWeek == calculateDayOfWeek(startYear, startMonth, startDay)
        startJulianDate == computeJulianDate(startYear, startMonth, startDay)
        endJulianDate == computeJulianDate(endYear, endMonth, endDay)
        numSimYears == endYear - startYear + 1
        leapStart == isLeapYear(startYear)
        LocalLeapYearAdd == IF leapStart /\ WFAllowsLeapYears THEN 1 ELSE 0
        sameYearStart == OrdinalDay(startMonth, startDay, LocalLeapYearAdd)
        sameYearEnd == OrdinalDay(endMonth, endDay, LocalLeapYearAdd)
        StartJDay2 == OrdinalDay(startMonth, startDay, IF leapStart THEN 1 ELSE 0)
        EndJDay2 == OrdinalDay(endMonth, endDay,
                               IF isLeapYear(endYear) /\ WFAllowsLeapYears THEN 1 ELSE 0)
        leapDays == IF WFAllowsLeapYears
                    THEN (IF StartJDay2 < 59 /\ leapStart THEN 1 ELSE 0)
                         + Cardinality({yr \in (startYear + 1)..(endYear - 1) : isLeapYear(yr)})
                    ELSE 0
        TotalDays2 == 366 - StartJDay2 + EndJDay2
                      + 365 * (IF numSimYears - 2 > 0 THEN numSimYears - 2 ELSE 0) + leapDays
    IN  [KindOfEnvrn |-> ksRunPeriodWeather,
         StartMonth |-> startMonth, StartDay |-> startDay, StartYear |-> startYear,
         EndMonth |-> endMonth, EndDay |-> endDay, EndYear |-> endYear,
         NumSimYears |-> numSimYears, CurrentYear |-> startYear,
         IsLeapYear |-> IF actualWeather \/ startYear # endYear THEN leapStart
                        ELSE leapStart /\ WFAllowsLeapYears,
         TreatYearsAsConsecutive |-> TRUE,
         MatchYear |-> actualWeather, ActualWeather |-> actualWeather,
         RollDayTypeOnRepeat |-> RollDayTypeOnRepeat,
         StartDate |-> IF actualWeather THEN startJulianDate ELSE 0,
         EndDate |-> IF actualWeather THEN endJulianDate ELSE 0,
         StartJDay |-> IF actualWeather THEN startJulianDate
                       ELSE IF startYear = endYear THEN sameYearStart ELSE StartJDay2,
         EndJDay |-> IF actualWeather THEN endJulianDate
                     ELSE IF startYear = endYear THEN sameYearEnd ELSE EndJDay2,
         TotalDays |-> IF actualWeather THEN endJulianDate - startJulianDate + 1
                       ELSE IF startYear = endYear THEN sameYearEnd - sameYearStart + 1
                       ELSE TotalDays2,
         RawSimDays |-> IF actualWeather THEN endJulianDate - startJulianDate + 1
                        ELSE IF startYear = endYear THEN sameYearEnd - sameYearStart + 1
                        ELSE TotalDays2,
         UseDST |-> useDST, UseHolidays |-> useHolidays,
         DayOfWeek |-> dayOfWeek,
         MonWeekDay |-> SetupWeekDaysByMonth(startMonth, startDay, dayOfWeek,
                                             InitialLeapYearAdd, ZeroMonths),
         ApplyWeekendRule |-> applyWeekendRule,
         DesignDayNum |-> 0, CurrentCycle |-> 0, DayType |-> 0, DSTIndicator |-> 0]

(* a SizingPeriod:DesignDay object: one day of the given date and day type *)
DesignDayEnvironment(DesignDayNum, Month, DayOfMonth, DayType, DSTIndicator) ==
    [KindOfEnvrn |-> ksDesignDay,
     StartMonth |-> Month, StartDay |-> DayOfMonth, StartYear |-> 0,
     EndMonth |-> Month, EndDay |-> DayOfMonth, EndYear |-> 0,
     NumSimYears |-> 1, CurrentYear |-> 0, IsLeapYear |-> FALSE,
     TreatYearsAsConsecutive |-> FALSE, MatchYear |-> FALSE, ActualWeather |-> FALSE,
     RollDayTypeOnRepeat |-> TRUE, StartDate |-> 0, EndDate |-> 0,
     StartJDay |-> OrdinalDay(Month, DayOfMonth, InitialLeapYearAdd),
     EndJDay |-> OrdinalDay(Month, DayOfMonth, InitialLeapYearAdd),
     TotalDays |-> 1, RawSimDays |-> 0,
     UseDST |-> FALSE, UseHolidays |-> FALSE,
     DayOfWeek |-> 0, MonWeekDay |-> ZeroMonths, ApplyWeekendRule |-> FALSE,
     DesignDayNum |-> DesignDayNum, CurrentCycle |-> 0, DayType |-> DayType,
     DSTIndicator |-> DSTIndicator]


(***************************************************************************)
(* The Daily Weather Record pair                                           *)
(***************************************************************************)
Hours == 1..24

(* the per-timestep arrays that UpdateWeatherData hands from Tomorrow to Today *)
CopiedArrays ==
    {"IsRain", "IsSnow", "OutDryBulbTemp", "OutDewPointTemp", "OutBaroPress", "OutRelHum",
     "WindSpeed", "WindDir", "SkyTemp", "HorizIRSky", "BeamSolarRad", "DifSolarRad",
     "LiquidPrecip"}

(* TodayAlbedo and TomorrowAlbedo are allocated and zeroed, never filled *)
DayArrays == CopiedArrays \cup {"Albedo"}

ZeroArrays == [a \in DayArrays |-> [h \in Hours |-> 0]]

(* DayWeatherVariables(): the day header *)
DayWeatherVariables ==
    [Year |-> 0, Month |-> 0, DayOfMonth |-> 0, DayOfYear |-> 0, DayOfWeek |-> 0,
     DaylightSavingIndex |-> 0, HolidayIndex |-> 0]

(***************************************************************************)
(* Record source: ReadEPlusWeatherForDay                                   *)
(***************************************************************************)
(* whether the records of the file's i-th day carry the environment's start date *)
RecordDateMatch(file, i, env) ==
    LET r == RecordDate(file, i)
    IN  IF r.WMonth = env.StartMonth /\ r.WDay = env.StartDay /\ ~env.MatchYear THEN TRUE
        ELSE r.WMonth = env.StartMonth /\ r.WDay = env.StartDay /\ env.MatchYear
             /\ r.WYear = env.StartYear

(* state of the search loop on entry: NumRewinds = 0,                       *)
(* CurDayOfWeek = DataPeriods(1).WeekDay - 1                               *)
SearchStart(file, FilePos) ==
    [Ready |-> FALSE, fatal |-> FALSE, FilePos |-> FilePos, NumRewinds |-> 0, EndOfFiles |-> 0,
     CurDayOfWeek |-> file.DataPeriods[1].WeekDay - 1]

(* a pass of the search that rewinds at every end of file *)
SearchStepRewindingAgain(file, env, s) ==
    LET N == file.NumDataDays
        eof == s.FilePos > N
        rewound == eof
        NumRewinds == IF rewound THEN s.NumRewinds + 1 ELSE s.NumRewinds
        EndOfFiles == s.EndOfFiles + (IF eof THEN 1 ELSE 0) + (IF rewound /\ N = 0 THEN 1 ELSE 0)
        pos == IF rewound THEN 1 ELSE s.FilePos
        ReadStatus == IF pos > N THEN -1 ELSE 0
        CurDayOfWeek == IF s.CurDayOfWeek <= 7 THEN mod(s.CurDayOfWeek, 7) + 1 ELSE s.CurDayOfWeek
        t == [s EXCEPT !.NumRewinds = NumRewinds, !.EndOfFiles = EndOfFiles, !.FilePos = pos]
    IN  IF ReadStatus # 0 THEN [t EXCEPT !.fatal = TRUE]
        ELSE IF RecordDateMatch(file, pos, env)
        THEN [t EXCEPT !.Ready = TRUE,
                       !.CurDayOfWeek = IF CurDayOfWeek <= 7 THEN CurDayOfWeek - 1 ELSE CurDayOfWeek]
        ELSE IF pos = N /\ ~file.LastDayComplete
        THEN [t EXCEPT !.fatal = TRUE, !.CurDayOfWeek = CurDayOfWeek]
        ELSE [t EXCEPT !.FilePos = pos + 1, !.CurDayOfWeek = CurDayOfWeek]

(* one pass of while (!Ready): read the first record of the day at FilePos; *)
(* end of file rewinds when NumRewinds = 0 and is severe otherwise; any    *)
(* nonzero ReadStatus after that is fatal; a matching record is backspaced *)
(* over; any other day is skipped record by record, fatal if one is missing *)
SearchStep(file, env, s) ==
    LET N == file.NumDataDays
        eof == s.FilePos > N
        rewound == eof /\ s.NumRewinds = 0
        NumRewinds == IF rewound THEN s.NumRewinds + 1 ELSE s.NumRewinds
        EndOfFiles == s.EndOfFiles + (IF eof THEN 1 ELSE 0) + (IF rewound /\ N = 0 THEN 1 ELSE 0)
        pos == IF rewound THEN 1 ELSE s.FilePos
        ReadStatus == IF pos > N THEN -1 ELSE 0
        CurDayOfWeek == IF s.CurDayOfWeek <= 7 THEN mod(s.CurDayOfWeek, 7) + 1 ELSE s.CurDayOfWeek
        t == [s EXCEPT !.NumRewinds = NumRewinds, !.EndOfFiles = EndOfFiles, !.FilePos = pos]
    IN  IF ReadStatus # 0 THEN [t EXCEPT !.fatal = TRUE]
        ELSE IF RecordDateMatch(file, pos, env)
        THEN [t EXCEPT !.Ready = TRUE,
                       !.CurDayOfWeek = IF CurDayOfWeek <= 7 THEN CurDayOfWeek - 1 ELSE CurDayOfWeek]
        ELSE IF pos = N /\ ~file.LastDayComplete
        THEN [t EXCEPT !.fatal = TRUE, !.CurDayOfWeek = CurDayOfWeek]
        ELSE [t EXCEPT !.FilePos = pos + 1, !.CurDayOfWeek = CurDayOfWeek]

(* n passes of the loop, or fewer when it has ended *)
RECURSIVE SearchLoop(_, _, _, _)
SearchLoop(file, env, s, n) ==
    IF s.Ready \/ s.fatal \/ n = 0 THEN s
    ELSE IF n = 1 THEN SearchStep(file, env, s)
    ELSE SearchLoop(file, env, SearchLoop(file, env, s, n \div 2), n - (n \div 2))

(* DayToRead == 1: the search for the environment's first day from the     *)
(* file's position FilePos (the number of the day whose records are next)  *)
FirstDaySearch(file, FilePos, env) ==
    SearchLoop(file, env, SearchStart(file, FilePos), MaxSearchPasses)

(* what the calls of one handler invocation did (history of the last call): *)
(* day reads, first-day searches with their rewinds and ends of file, the  *)
(* end of file met at a day boundary and whether the reader rewound on it, *)
(* calls of ResetWeekDaysByMonth, SetDSTDateRanges and SetSpecialDayDates, *)
(* Tomorrow as the day-start block found it, and the passes of while       *)
(* (TryAgain) in the last read of a day                                    *)
NoEvents ==
    [reads |-> 0, searches |-> 0, NumRewinds |-> 0, EndOfFiles |-> 0, found |-> FALSE,
     searchFatal |-> FALSE, eof |-> FALSE, rewound |-> FALSE, resets |-> 0, dst |-> 0, special |-> 0,
     dayStart |-> FALSE, TomorrowVariables |-> DayWeatherVariables, Tomorrow |-> ZeroArrays,
     passes |-> 0]

(* SetDSTDateRanges stores its markings in DSTIndex; its fatal error ends the run *)
StoreDSTIndex(w, d) ==
    [w EXCEPT !.DSTIndex = d.DSTIndex, !.ev.dst = @ + 1, !.fatal = @ \/ d.fatal]

(* SetSpecialDayDates stores its markings in SpecialDayTypes *)
StoreSpecialDayTypes(w, s) ==
    [w EXCEPT !.SpecialDayTypes = s.SpecialDayTypes, !.ev.special = @ + 1,
              !.fatal = @ \/ s.fatal, !.undefined = @ \/ s.oob]

(* if (DaylightSavingIsActive) SetDSTDateRanges(MonWeekDay, DSTIndex); *)
ResolveDST(cfg, w, MonWeekDay) ==
    IF w.DaylightSavingIsActive
    THEN StoreDSTIndex(w, SetDSTDateRanges(MonWeekDay, w.DSTIndex, w.LeapYearAdd, cfg.DST))
    ELSE w

(* SetSpecialDayDates(MonWeekDay); *)
ResolveSpecialDays(cfg, w, MonWeekDay) ==
    IF w.fatal THEN w
    ELSE StoreSpecialDayTypes(w,
             SetSpecialDayDates(MonWeekDay, w.SpecialDayTypes, w.LeapYearAdd, cfg.SpecialDays,
                                w.UseSpecialDays, w.Environment[w.Envrn].ApplyWeekendRule,
                                w.WeekDayTypes))

(* the pair of calls that follows every change of the weekday table *)
ResolveDayTables(cfg, w, MonWeekDay) ==
    ResolveSpecialDays(cfg, ResolveDST(cfg, w, MonWeekDay), MonWeekDay)

(* a reader that rewinds at every end of file *)
RewindsAtEveryEndOfFile(file) == TRUE

(* end of file at the first record of a day: the reader goes back to the   *)
(* first data record when the file has one data period of a year or more   *)
RewindsAtEndOfFile(file) ==
    Len(file.DataPeriods) = 1 /\ file.DataPeriods[1].NumDays >= NumDaysInYear

(* a reader that keeps every day of the file *)
SkipThisDayNever(w, file, r) == FALSE

(* SkipThisDay = TryAgain = true: the day's records are February 29 and    *)
(* the current year is not a leap year or the file does not allow them     *)
SkipThisDay(w, file, r) ==
    r.WMonth = 2 /\ r.WDay = 29 /\ (~w.CurrentYearIsLeapYear \/ ~file.WFAllowsLeapYears)

(* the day loop of ReadEPlusWeatherForDay: one pass of while (TryAgain)    *)
(* reads the 24 records of the day at FilePos into Tomorrow                *)
RECURSIVE ReadDayRecords(_, _)
ReadDayRecords(cfg, w) ==
    LET file == cfg.file
        N == file.NumDataDays
        eof == w.FilePos > N
        rewinds == eof /\ RewindsAtEndOfFile(file)
        pos == IF eof THEN 1 ELSE w.FilePos
        r == RecordDate(file, pos)
        env == w.Environment[w.Envrn]
        zeroed == [w EXCEPT !.Tomorrow = ZeroArrays, !.ev.eof = @ \/ eof,
                            !.ev.rewound = @ \/ rewinds, !.ev.passes = @ + 1]
        DayOfYear == OrdinalDay(r.WMonth, r.WDay, w.LeapYearAdd)
        CurDayOfWeek == IF w.CurDayOfWeek <= 7 THEN mod(w.CurDayOfWeek, 7) + 1
                        ELSE w.CurDayOfWeek
    IN  IF (eof /\ ~rewinds) \/ N = 0 THEN [zeroed EXCEPT !.fatal = TRUE]
        ELSE IF pos = N /\ ~file.LastDayComplete THEN [zeroed EXCEPT !.fatal = TRUE]
        ELSE IF SkipThisDay(w, file, r)
        THEN ReadDayRecords(cfg, [zeroed EXCEPT !.FilePos = pos + 1])
        ELSE IF env.ActualWeather /\ w.CurrentYearIsLeapYear /\ r.WMonth = 3 /\ r.WDay = 1
                /\ w.Month = 2 /\ w.DayOfMonth = 28
        THEN [zeroed EXCEPT !.fatal = TRUE]
        ELSE [zeroed EXCEPT
                !.FilePos = pos + 1,
                !.CurDayOfWeek = CurDayOfWeek,
                !.TomorrowVariables =
                    [Year |-> r.WYear, Month |-> r.WMonth, DayOfMonth |-> r.WDay,
                     DayOfYear |-> DayOfYear, DayOfWeek |-> CurDayOfWeek,
                     DaylightSavingIndex |-> w.DSTIndex[DayOfYear],
                     HolidayIndex |-> w.SpecialDayTypes[DayOfYear]],
                !.Tomorrow = [a \in DayArrays |->
                                IF a \in CopiedArrays
                                THEN [h \in Hours |-> RecordValue(file, pos, h)]
                                ELSE ZeroArrays[a]]]

(* the outcome of the search for the first day *)
StoreSearch(w, s) ==
    [w EXCEPT !.FilePos = s.FilePos, !.CurDayOfWeek = s.CurDayOfWeek,
              !.ev.searches = @ + 1, !.ev.NumRewinds = s.NumRewinds,
              !.ev.EndOfFiles = s.EndOfFiles, !.ev.found = s.Ready,
              !.ev.searchFatal = s.fatal, !.fatal = ~s.Ready]

(* "Positioned to proper day": the weekday of the first day, and for a run *)
(* period the DST and special-day tables                                   *)
Positioned(cfg, w) ==
    LET env == w.Environment[w.Envrn]
        initialDay == SetDayOfWeekInitialValues(env.DayOfWeek, w.CurDayOfWeek)
    IN  IF w.fatal THEN w
        ELSE IF ~cfg.DoingSizing /\ env.KindOfEnvrn = ksRunPeriodWeather
        THEN IF ~env.RollDayTypeOnRepeat \/ env.CurrentCycle + 1 = 1
             THEN ResolveDayTables(cfg,
                                   [w EXCEPT !.Environment[w.Envrn].CurrentCycle = @ + 1,
                                             !.CurDayOfWeek = initialDay],
                                   env.MonWeekDay)
             ELSE [w EXCEPT !.Environment[w.Envrn].CurrentCycle = @ + 1,
                            !.CurDayOfWeek = w.DayOfWeekTomorrow]
        ELSE [w EXCEPT !.CurDayOfWeek = initialDay]

(* the day loop runs unless a fatal error has ended the run *)
ReadDay(cfg, w) == IF w.fatal THEN w ELSE ReadDayRecords(cfg, [w EXCEPT !.ev.passes = 0])

(* ReadWeatherForDay -> ReadEPlusWeatherForDay(DayToRead, Envrn, ...)      *)
ReadWeatherForDay(cfg, w, DayToRead) ==
    IF DayToRead # 1 THEN ReadDay(cfg, w)
    ELSE ReadDay(cfg,
                 Positioned(cfg,
                            StoreSearch(w, FirstDaySearch(cfg.file, w.FilePos,
                                                          w.Environment[w.Envrn]))))

(***************************************************************************)
(* Environment scheduler                                                   *)
(***************************************************************************)
(* an update that hands over the header and leaves Today's arrays alone *)
UpdateWeatherDataHeaderOnly(w) ==
    [w EXCEPT !.TodayVariables = w.TomorrowVariables,
              !.DayOfYear = w.TomorrowVariables.DayOfYear,
              !.Year = w.TomorrowVariables.Year,
              !.Month = w.TomorrowVariables.Month,
              !.DayOfMonth = w.TomorrowVariables.DayOfMonth,
              !.DayOfWeek = w.TomorrowVariables.DayOfWeek,
              !.HolidayIndex = w.TomorrowVariables.HolidayIndex,
              !.DSTIndicator = w.TomorrowVariables.DaylightSavingIndex]

(* UpdateWeatherData: Today takes Tomorrow's header and arrays, and the    *)
(* current date and day type are published                                 *)
UpdateWeatherData(w) ==
    [w EXCEPT !.TodayVariables = w.TomorrowVariables,
              !.Today = [a \in DayArrays |->
                            IF a \in CopiedArrays THEN w.Tomorrow[a] ELSE w.Today[a]],
              !.DayOfYear = w.TomorrowVariables.DayOfYear,
              !.Year = w.TomorrowVariables.Year,
              !.Month = w.TomorrowVariables.Month,
              !.DayOfMonth = w.TomorrowVariables.DayOfMonth,
              !.DayOfWeek = w.TomorrowVariables.DayOfWeek,
              !.HolidayIndex = w.TomorrowVariables.HolidayIndex,
              !.DSTIndicator = w.TomorrowVariables.DaylightSavingIndex]

(* the value SetUpDesignDay computes for hour h of design day n; the       *)
(* profile itself is not modelled, only that it belongs to that design day *)
DesignDayValue(n, h) == 10000 * n + h

(* SetUpDesignDay(EnvrnNum) followed by TomorrowVariables = DesignDay(n)   *)
SetUpDesignDay(w) ==
    LET env == w.Environment[w.Envrn]
        n == env.DesignDayNum
    IN  [w EXCEPT
            !.TomorrowVariables =
                [Year |-> 0, Month |-> env.StartMonth, DayOfMonth |-> env.StartDay,
                 DayOfYear |-> OrdinalDay(env.StartMonth, env.StartDay, 0),
                 DayOfWeek |-> IF env.DayType <= 7 THEN env.DayType ELSE 2,
                 DaylightSavingIndex |-> env.DSTIndicator,
                 HolidayIndex |-> IF env.DayType > 7 THEN env.DayType - 7 ELSE 0],
            !.Tomorrow = [a \in DayArrays |->
                            IF a \in CopiedArrays THEN [h \in Hours |-> DesignDayValue(n, h)]
                            ELSE ZeroArrays[a]]]

(* a check of the run period that every file passes *)
OkRunAlways(cfg, env, LeapYearAdd) == TRUE

(* whether some data period of the file covers the run period *)
OkRun(cfg, env, LeapYearAdd) ==
    \E i \in 1..Len(cfg.file.DataPeriods) :
        LET dataperiod == cfg.file.DataPeriods[i]
            runStartOrdinal == OrdinalDay(dataperiod.StMon, dataperiod.StDay, LeapYearAdd)
            runEndOrdinal == OrdinalDay(dataperiod.EnMon, dataperiod.EnDay, LeapYearAdd)
        IN  IF env.ActualWeather
            THEN /\ BetweenDates(env.StartDate, dataperiod.DataStJDay, dataperiod.DataEnJDay)
                 /\ BetweenDates(env.EndDate, dataperiod.DataStJDay, dataperiod.DataEnJDay)
            ELSE \/ runStartOrdinal = 1 /\ runEndOrdinal \in {365, 366}
                 \/ /\ BetweenDates(env.StartJDay, runStartOrdinal, runEndOrdinal)
                    /\ BetweenDates(env.EndJDay, runStartOrdinal, runEndOrdinal)

(* the run-period case of GetNextEnvironment: leap setting, checks against *)
(* the file, weekday table of the days of the year, DST and special days   *)
SetupRunPeriod(cfg, w) ==
    LET env == w.Environment[w.Envrn]
        CurrentYearIsLeapYear == env.IsLeapYear
        LeapYearAdd == IF CurrentYearIsLeapYear /\ cfg.file.WFAllowsLeapYears THEN 1 ELSE 0
        missingLeap == /\ env.ActualWeather /\ ~cfg.file.WFAllowsLeapYears
                       /\ \E year \in env.StartYear..env.EndYear : isLeapYear(year)
        JDay5Start == OrdinalDay(env.StartMonth, env.StartDay, LeapYearAdd)
        JDay5End == OrdinalDay(env.EndMonth, env.EndDay, LeapYearAdd)
        DaylightSavingIsActive ==
            IF cfg.IDFDaylightSaving THEN TRUE
            ELSE IF env.UseDST THEN (cfg.file.EPWDaylightSaving \/ w.DaylightSavingIsActive)
            ELSE FALSE
        notJan1 == env.StartMonth # 1 \/ env.StartDay # 1
        set == [w EXCEPT
                  !.CurrentYearIsLeapYear = CurrentYearIsLeapYear,
                  !.LeapYearAdd = LeapYearAdd,
                  !.UseDaylightSaving = env.UseDST,
                  !.UseSpecialDays = env.UseHolidays,
                  !.WeekDayTypes = FillWeekDayTypes(ZeroDays, JDay5Start, JDay5End, env.DayOfWeek),
                  !.curSimDayForEndOfRunPeriod = env.TotalDays,
                  !.DaylightSavingIsActive = DaylightSavingIsActive,
                  !.StartDatesCycleShouldBeReset = notJan1 /\ ~env.ActualWeather,
                  !.Jan1DatesShouldBeReset = TRUE]
    IN  IF ~OkRun(cfg, env, LeapYearAdd) \/ missingLeap
        THEN [w EXCEPT !.fatal = TRUE, !.CurrentYearIsLeapYear = CurrentYearIsLeapYear,
                       !.LeapYearAdd = LeapYearAdd]
        ELSE ResolveDayTables(cfg, set, env.MonWeekDay)

(* the environment is set up when it is available and asked for *)
PrepareEnvironment(cfg, w) ==
    IF ~w.ErrorsFound /\ w.Available /\ w.Envrn > 0
       /\ w.KindOfSim = ksRunPeriodWeather /\ cfg.DoWeathSim
    THEN SetupRunPeriod(cfg, w)
    ELSE w

(* if (ErrorsFound) Available = false *)
RefuseOnErrors(w) == IF w.ErrorsFound THEN [w EXCEPT !.Available = FALSE] ELSE w

(* GetNextEnvironment(Available, ErrorsFound) after its one-time input     *)
GetNextEnvironment(cfg, w0) ==
    LET Envrn == w0.Envrn + 1
        NumOfEnvrn == Len(w0.Environment)
        w == [w0 EXCEPT !.ev = NoEvents, !.DatesShouldBeReset = FALSE]
        env == w.Environment[Envrn]
        KindOfSim == env.KindOfEnvrn
        opened == [w EXCEPT
                     !.Envrn = Envrn, !.KindOfSim = KindOfSim, !.DayOfYear = env.StartJDay,
                     !.DayOfMonth = env.StartDay, !.Month = env.StartMonth,
                     !.NumOfDayInEnvrn = env.TotalDays,
                     !.FilePos = IF Envrn > cfg.TotDesDays /\ cfg.WeatherFileExists THEN 1 ELSE @,
                     !.Available = TRUE]
        refused == [opened EXCEPT !.Available = FALSE, !.Envrn = 0]
    IN  IF Envrn > NumOfEnvrn
        THEN [w EXCEPT !.Available = FALSE, !.Envrn = 0]
        ELSE RefuseOnErrors(PrepareEnvironment(cfg,
                 IF KindOfSim = ksRunPeriodWeather /\ ~cfg.WeatherFileExists /\ cfg.DoWeathSim
                 THEN [refused EXCEPT !.ErrorsFound = @ \/ ~cfg.DoingSizing]
                 ELSE IF KindOfSim = ksRunPeriodWeather /\ ~cfg.WeatherFileExists THEN refused
                 ELSE IF KindOfSim = ksRunPeriodWeather /\ cfg.DoingSizing THEN refused
                 ELSE opened))

(* ResetWeekDaysByMonth works on Environment(Envrn).MonWeekDay in place *)
StoreMonWeekDay(w, MonWeekDay) ==
    [w EXCEPT !.Environment[w.Envrn].MonWeekDay = MonWeekDay, !.ev.resets = @ + 1]

(* the DST and special-day tables from the environment's weekday table *)
ResolveFromEnvironment(cfg, w) ==
    ResolveDayTables(cfg, w, w.Environment[w.Envrn].MonWeekDay)

(* the re-resolution of the calendar tables at a year rollover:            *)
(* ResetWeekDaysByMonth, then SetDSTDateRanges and SetSpecialDayDates      *)
ReResolve(cfg, w, MidSimReset) ==
    LET env == w.Environment[w.Envrn]
    IN  ResolveFromEnvironment(cfg,
            StoreMonWeekDay(w,
                ResetWeekDaysByMonth(env.MonWeekDay, w.LeapYearAdd, env.StartMonth,
                                     env.StartDay, env.EndMonth, env.EndDay,
                                     env.RollDayTypeOnRepeat, MidSimReset)))

(* InitializeWeather, BeginEnvrnFlag block: Tomorrow is primed with the    *)
(* design day or with the first day of the run period                      *)
BeginEnvrnBlock(cfg, h, w) ==
    IF ~h.BeginEnvrnFlag THEN w
    ELSE IF w.KindOfSim = ksDesignDay THEN SetUpDesignDay(w)
    ELSE ReadWeatherForDay(cfg, w, 1)

(* history: the day-start block is entered with this Tomorrow *)
NoteDayStart(w) ==
    [w EXCEPT !.ev.dayStart = TRUE, !.ev.TomorrowVariables = w.TomorrowVariables,
              !.ev.Tomorrow = w.Tomorrow]

(* history: the day-start block calls ReadWeatherForDay *)
NoteRead(w) == [w EXCEPT !.ev.reads = @ + 1]

(* the run period starts over: if (StartDatesCycleShouldBeReset) the       *)
(* calendar tables are resolved again                                      *)
RepeatRunPeriod(cfg, w) ==
    IF w.StartDatesCycleShouldBeReset THEN ReResolve(cfg, w, FALSE) ELSE w

(* a day-start block that reads the next day in warmup as well *)
ReadTomorrowInWarmup(cfg, h, w) ==
    IF w.Environment[w.Envrn].KindOfEnvrn = ksDesignDay THEN w
    ELSE IF ~(h.DayOfSim < w.NumOfDayInEnvrn) THEN w
    ELSE ReadWeatherForDay(cfg, NoteRead(w), h.DayOfSim + 1)

(* InitializeWeather, BeginDayFlag block after UpdateWeatherData: the next *)
(* day is read out of warmup, for a weather file, before the last day      *)
ReadTomorrow(cfg, h, w) ==
    LET env == w.Environment[w.Envrn]
    IN  IF h.WarmupFlag \/ env.KindOfEnvrn = ksDesignDay THEN w
        ELSE IF ~(h.DayOfSim < w.NumOfDayInEnvrn) THEN w
        ELSE IF h.DayOfSim = w.curSimDayForEndOfRunPeriod
        THEN ReadWeatherForDay(cfg,
                 RepeatRunPeriod(cfg,
                     NoteRead([w EXCEPT !.curSimDayForEndOfRunPeriod = @ + env.RawSimDays])),
                 1)
        ELSE ReadWeatherForDay(cfg, NoteRead(w), h.DayOfSim + 1)

(* DayOfWeekTomorrow = TomorrowVariables.DayOfWeek *)
SetTomorrowDate(w) == [w EXCEPT !.DayOfWeekTomorrow = w.TomorrowVariables.DayOfWeek]

(* InitializeWeather, BeginDayFlag block, the year rollover on January 1   *)
YearRollover(cfg, h, w) ==
    LET env == w.Environment[w.Envrn]
        CurrentYear == env.CurrentYear + 1
        leap == isLeapYear(CurrentYear)
        WFAllowsLeapYears == cfg.file.WFAllowsLeapYears
        LeapYearAdd == IF leap /\ WFAllowsLeapYears THEN 1 ELSE 0
        JDay5Start == OrdinalDay(env.StartMonth, env.StartDay, LeapYearAdd)
        JDay5End == OrdinalDay(env.EndMonth, env.EndDay, LeapYearAdd)
        typicalLeap == leap /\ WFAllowsLeapYears
        curSimDayForEndOfRunPeriod ==
            IF h.DayOfSim < w.curSimDayForEndOfRunPeriod /\ typicalLeap
            THEN w.curSimDayForEndOfRunPeriod + 1 ELSE w.curSimDayForEndOfRunPeriod
        actual == [w EXCEPT
                     !.Environment[w.Envrn].CurrentYear = CurrentYear,
                     !.Environment[w.Envrn].IsLeapYear = leap,
                     !.CurrentYearIsLeapYear = leap,
                     !.LeapYearAdd = LeapYearAdd,
                     !.WeekDayTypes = FillWeekDayTypes(w.WeekDayTypes, JDay5Start, JDay5End,
                                                       w.DayOfWeek)]
        typical == [w EXCEPT
                      !.Environment[w.Envrn].CurrentYear = CurrentYear,
                      !.Environment[w.Envrn].IsLeapYear = leap,
                      !.CurrentYearIsLeapYear = typicalLeap,
                      !.LeapYearAdd = IF typicalLeap THEN 1 ELSE 0,
                      !.curSimDayForEndOfRunPeriod = curSimDayForEndOfRunPeriod]
    IN  IF w.fatal THEN w
        ELSE IF env.KindOfEnvrn # ksRunPeriodWeather \/ w.Month # 1 \/ w.DayOfMonth # 1 THEN w
        ELSE IF env.ActualWeather
        THEN IF w.DatesShouldBeReset /\ env.TreatYearsAsConsecutive
             THEN ReResolve(cfg, actual, FALSE) ELSE w
        ELSE IF w.DatesShouldBeReset /\ w.Jan1DatesShouldBeReset
        THEN IF h.DayOfSim < curSimDayForEndOfRunPeriod
             THEN ReResolve(cfg, typical, env.RollDayTypeOnRepeat \/ typicalLeap)
             ELSE typical
        ELSE w

(* InitializeWeather, BeginDayFlag block *)
BeginDayBlock(cfg, h, w) ==
    IF ~h.BeginDayFlag \/ w.fatal THEN w
    ELSE YearRollover(cfg, h,
             SetTomorrowDate(ReadTomorrow(cfg, h, UpdateWeatherData(NoteDayStart(w)))))

(* InitializeWeather: away from the start date the dates may be reset *)
MarkDatesShouldBeReset(h, w) ==
    LET env == w.Environment[w.Envrn]
    IN  IF /\ ~h.BeginDayFlag /\ ~h.WarmupFlag
           /\ (w.Month # env.StartMonth \/ w.DayOfMonth # env.StartDay)
           /\ ~w.DatesShouldBeReset /\ env.KindOfEnvrn = ksRunPeriodWeather
        THEN [w EXCEPT !.DatesShouldBeReset = TRUE]
        ELSE w

(* InitializeWeather, EndEnvrnFlag: rewind and skip the header *)
EndEnvrnBlock(h, w) ==
    IF ~w.fatal /\ h.EndEnvrnFlag /\ w.Environment[w.Envrn].KindOfEnvrn # ksDesignDay
    THEN [w EXCEPT !.FilePos = 1]
    ELSE w

(* InitializeWeather: one call of the host, which has set the flags of h   *)
InitializeWeather(cfg, h, w) ==
    EndEnvrnBlock(h,
        MarkDatesShouldBeReset(h,
            BeginDayBlock(cfg, h, BeginEnvrnBlock(cfg, h, [w EXCEPT !.ev = NoEvents]))))

(***************************************************************************)
(* Specification SpecResolve: the DST and special-day tables re-resolved   *)
(* as the weekday table changes from year to year                          *)
(***************************************************************************)
(* calIn: the anchor; calTab: the weekday table; calCall: the call of      *)
(* ResetWeekDaysByMonth made on the table, if any; calOld: the table as    *)
(* that call found it                                                       *)
VARIABLES calIn, calTab, calCall, calOld

calVars == <<calIn, calTab, calCall, calOld>>

(* rsRolled: the simulated year has rolled over since the run began *)
VARIABLES rsCfg, rsYear, rsMonWeekDay, rsWeekDayTypes, rsDSTIndex, rsSpecialDayTypes, rsLast,
          rsCleared, rsWarn, rsRolled

rsVars == <<rsCfg, rsYear, rsMonWeekDay, rsWeekDayTypes, rsDSTIndex, rsSpecialDayTypes, rsLast,
            rsCleared, rsWarn, rsRolled>>

(* the input of the run, the weather manager's data, the host's loop      *)
(* position and flags, and the results GetNextEnvironment has returned    *)
(* since the environment counter was reset                                *)
VARIABLES cfg, wm, host, log

mainVars == <<cfg, wm, host, log>>

(* the flag of the run, the "missing" values, the counters, the number of  *)
(* the environment, the hour to read next (0: none), the records read in   *)
(* the environment as the file holds them, the values stored for the hours *)
(* of the day read last, the date of that day, and whether the reader has  *)
(* ended the run in a fatal error                                          *)
VARIABLES DisplayWeatherMissingDataWarnings, Missing, Missed, OutOfRange, rdEnvrn, rdHour, rdRead, rdTomorrow, rdTomorrowVariables, rdFatal

rdVars == <<DisplayWeatherMissingDataWarnings, Missing, Missed, OutOfRange, rdEnvrn, rdHour, rdRead, rdTomorrow, rdTomorrowVariables, rdFatal>>

(* lnLine: the line once its first 27 fields are taken off, as the pieces  *)
(* its commas separate (the weather codes, then the trailing fields the    *)
(* line holds); lnOut: what InterpretWeatherDataLine has made of it        *)
VARIABLES lnLine, lnOut

lnVars == <<lnLine, lnOut>>

(* dtDate: a date (y, m, d); dtJulian: its Julian day number; dtBack: the  *)
(* date JGDate makes of that number; dtDirect and dtFromJulian: the        *)
(* weekday from the date and from the number; dtLeap: isLeapYear(y)        *)
VARIABLES dtDate, dtJulian, dtBack, dtDirect, dtFromJulian, dtLeap

dtVars == <<dtDate, dtJulian, dtBack, dtDirect, dtFromJulian, dtLeap>>

(* NumOfTimeStepInHour; the weights SetupInterpolationValues builds        *)
(* (Interpolation as numerators over N, SolarInterpolation as numerators   *)
(* over 2N; empty before the call); LastHourSet and the values of the last *)
(* hour; the hourly values of the day read last; the values of its         *)
(* timesteps; the number of days read; the values of the last hour as the  *)
(* interpolation of that day found them                                    *)
VARIABLES NumOfTimeStepInHour, Interpolation, SolarInterpolation, LastHourSet, LastHr, Wthr, ipTomorrow, ipDays, ipOld

ipVars == <<NumOfTimeStepInHour, Interpolation, SolarInterpolation, LastHourSet, LastHr, Wthr, ipTomorrow, ipDays, ipOld>>

(* ddInput: the design day (solar model, taus, the flags that ignore       *)
(* radiation, the timesteps per hour); ddSun: the cosine of the zenith     *)
(* angle at every timestep, in millionths; ddSchedule: the values of the   *)
(* beam and diffuse schedules; ddTomorrow: the radiation stored for every  *)
(* timestep; ddWthr: the hourly values filled back from them, over 2N      *)
VARIABLES ddInput, ddSun, ddSchedule, ddTomorrow, ddWthr

ddVars == <<ddInput, ddSun, ddSchedule, ddTomorrow, ddWthr>>

(* cwIn: the day held in the Today arrays, the EMS override of the dry     *)
(* bulb, UseRainValues and UseSnowValues; cwClock: HourOfDay and TimeStep; *)
(* cwCur: the current state SetCurrentWeather exposes; cwCalls: the calls  *)
(* made at this timestep; cwFirst: the state the first of them exposed     *)
VARIABLES cwIn, cwClock, cwCur, cwCalls, cwFirst

cwVars == <<cwIn, cwClock, cwCur, cwCalls, cwFirst>>

(* opFile: the lines of the file; opRead: the lines read so far; HdLine,   *)
(* StillLooking: the header looked for; opProcessed: the lines handed to   *)
(* ProcessEPWHeader, in order; opFatal: the run has ended fatally          *)
VARIABLES opFile, opRead, HdLine, StillLooking, opProcessed, opFatal

opVars == <<opFile, opRead, HdLine, StillLooking, opProcessed, opFatal>>

(* suIn: a RunPeriod object on typical weather and whether the file allows *)
(* leap years; suEnv: the environment set up from it (none before)         *)
VARIABLES suIn, suEnv

suVars == <<suIn, suEnv>>

(* the variables the resolver specification leaves alone, and those the *)
(* weekday-table specification leaves alone                             *)
notRsVars == <<calVars, mainVars, rdVars, lnVars, dtVars, ipVars, ddVars, cwVars, opVars, suVars>>
notCalVars == <<rsVars, mainVars, rdVars, lnVars, dtVars, ipVars, ddVars, cwVars, opVars, suVars>>
notMainVars == <<calVars, rsVars, rdVars, lnVars, dtVars, ipVars, ddVars, cwVars, opVars, suVars>>
notRdVars == <<calVars, rsVars, mainVars, lnVars, dtVars, ipVars, ddVars, cwVars, opVars, suVars>>
notLnVars == <<calVars, rsVars, mainVars, rdVars, dtVars, ipVars, ddVars, cwVars, opVars, suVars>>
notDtVars == <<calVars, rsVars, mainVars, rdVars, lnVars, ipVars, ddVars, cwVars, opVars, suVars>>
notIpVars == <<calVars, rsVars, mainVars, rdVars, lnVars, dtVars, ddVars, cwVars, opVars, suVars>>
notDdVars == <<calVars, rsVars, mainVars, rdVars, lnVars, dtVars, ipVars, cwVars, opVars, suVars>>
notCwVars == <<calVars, rsVars, mainVars, rdVars, lnVars, dtVars, ipVars, ddVars, opVars, suVars>>
notOpVars == <<calVars, rsVars, mainVars, rdVars, lnVars, dtVars, ipVars, ddVars, cwVars, suVars>>
notSuVars == <<calVars, rsVars, mainVars, rdVars, lnVars, dtVars, ipVars, ddVars, cwVars, opVars>>

(***************************************************************************)
(* Missing and out-of-range data of the weather file records               *)
(* (specification SpecRead).  Every value of a record is held in tenths    *)
(* of its unit: a dry-bulb of 99.9 C is 999, a pressure of 31000 Pa is     *)
(* 310000.                                                                  *)
(***************************************************************************)
(* the hours of a day, and the environments of a run *)
HoursInDay == 3
MaxEnvironments == 2

(* the standard barometric pressure of a site at sea level, 101325 Pa *)
StdBaroPress == 1013250

MissingFields ==
    {"StnPres", "DryBulb", "DewPoint", "RelHumid", "WindSpd", "WindDir", "TotSkyCvr",
     "OpaqSkyCvr", "Visibility", "Ceiling", "PrecipWater", "AerOptDepth", "SnowDepth",
     "DaysLastSnow", "Albedo", "LiquidPrecip"}

MissedFields == MissingFields \cup {"WeathCodes", "DirectRad", "DiffuseRad"}

RangeFields == {"StnPres", "DryBulb", "DewPoint", "RelHumid", "WindSpd", "WindDir", "DirectRad", "DiffuseRad"}

(* MissingData(), MissingDataCounts() and RangeDataCounts() *)
MissingData == [f \in MissingFields |-> 0]
MissingDataCounts == [f \in MissedFields |-> 0]
RangeDataCounts == [f \in RangeFields |-> 0]

(* the initial "missing" values of an environment *)
InitialMissing ==
    [StnPres |-> StdBaroPress, DryBulb |-> 60, DewPoint |-> 30, RelHumid |-> 500,
     WindSpd |-> 25, WindDir |-> 1800, TotSkyCvr |-> 50, OpaqSkyCvr |-> 50,
     Visibility |-> 7777, Ceiling |-> 777770, PrecipWater |-> 0, AerOptDepth |-> 0,
     SnowDepth |-> 0, DaysLastSnow |-> 880, Albedo |-> 0, LiquidPrecip |-> 0]

(* a record all of whose values are present and in range *)
GoodRecord ==
    [DryBulb |-> 100, DewPoint |-> 50, RelHum |-> 700, AtmPress |-> 1000000,
     WindDir |-> 2700, WindSpeed |-> 30, TotalSkyCover |-> 30, OpaqueSkyCover |-> 20,
     Visibility |-> 200, CeilHeight |-> 10000, PrecipWater |-> 100, AerosolOptDepth |-> 1,
     SnowDepth |-> 0, DaysSinceLastSnow |-> 100, Albedo |-> 2, LiquidPrecip |-> 0,
     DirectRad |-> 3000, DiffuseRad |-> 1000]

(* the values that replace one field of the good record: sentinels, values *)
(* out of range, negative values                                           *)
TestValues ==
    { <<"DryBulb", 999>>, <<"DryBulb", 800>>, <<"DewPoint", -950>>,
      <<"RelHum", 1200>>, <<"RelHum", -10>>,
      <<"AtmPress", 9999990>>, <<"AtmPress", 200000>>,
      <<"WindDir", -900>>, <<"WindDir", 4000>>,
      <<"WindSpeed", 500>>, <<"WindSpeed", -10>>,
      <<"DirectRad", 99990>>, <<"DiffuseRad", 99990>>, <<"DiffuseRad", -10>> }

Records == {GoodRecord} \cup { [GoodRecord EXCEPT ![t[1]] = t[2]] : t \in TestValues }

(* "Set possible missing values": a negative or impossible value becomes   *)
(* the sentinel of its field                                               *)
SetPossibleMissing(r) ==
    [r EXCEPT !.AtmPress = IF @ < 0 THEN 9999990 ELSE @,
              !.WindSpeed = IF @ < 0 THEN 9990 ELSE @,
              !.WindDir = IF @ < -3600 \/ @ > 3600 THEN 9990 ELSE @,
              !.TotalSkyCover = IF @ < 0 THEN 990 ELSE @,
              !.RelHum = IF @ < 0 THEN 9990 ELSE @,
              !.OpaqueSkyCover = IF @ < 0 THEN 990 ELSE @,
              !.Visibility = IF @ < 0 THEN 99990 ELSE @,
              !.CeilHeight = IF @ < 0 THEN 99990 ELSE @,
              !.PrecipWater = IF @ < 0 THEN 9990 ELSE @,
              !.AerosolOptDepth = IF @ < 0 THEN 9990 ELSE @,
              !.SnowDepth = IF @ < 0 THEN 9990 ELSE @,
              !.DaysSinceLastSnow = IF @ < 0 THEN 990 ELSE @,
              !.Albedo = IF @ < 0 THEN 9990 ELSE @,
              !.LiquidPrecip = IF @ < 0 THEN 9990 ELSE @]

(* 1 for a test that holds, 0 for one that does not *)
Tally(test) == IF test THEN 1 ELSE 0

(* the radiation counters of a record as read, kept only when the missing  *)
(* data warnings are displayed                                              *)
MissedRadiation(r, Md) ==
    LET direct == [Md EXCEPT !.DirectRad = @ + Tally(r.DirectRad >= 99990)]
    IN  IF r.DiffuseRad >= 99990 THEN [direct EXCEPT !.DiffuseRad = direct.DirectRad + 1] ELSE direct

OutOfRangeRadiation(r, Oor) ==
    [Oor EXCEPT !.DirectRad = @ + Tally(r.DirectRad < 0), !.DiffuseRad = @ + Tally(r.DiffuseRad < 0)]

(* a value at or above the sentinel of its field is replaced *)
Substituted(v, sentinel, good) == IF v >= sentinel THEN good ELSE v

(* the checks of a record, were a dry-bulb out of range replaced as a      *)
(* pressure out of range is                                                *)
CheckedRecordCorrectingRange(r, Mg) ==
    [r EXCEPT !.DryBulb = IF Substituted(@, 999, Mg.DryBulb) < -900 \/ Substituted(@, 999, Mg.DryBulb) > 700 THEN Mg.DryBulb ELSE Substituted(@, 999, Mg.DryBulb),
              !.DewPoint = Substituted(@, 999, Mg.DewPoint),
              !.RelHum = Substituted(@, 9990, Mg.RelHumid),
              !.AtmPress = IF Substituted(@, 9999990, Mg.StnPres) <= 310000 \/ Substituted(@, 9999990, Mg.StnPres) > 1200000 THEN Mg.StnPres ELSE Substituted(@, 9999990, Mg.StnPres),
              !.WindDir = Substituted(@, 9990, Mg.WindDir),
              !.WindSpeed = Substituted(@, 9990, Mg.WindSpd),
              !.TotalSkyCover = Substituted(@, 990, Mg.TotSkyCvr),
              !.OpaqueSkyCover = Substituted(@, 990, Mg.OpaqSkyCvr),
              !.SnowDepth = Substituted(@, 9990, Mg.SnowDepth),
              !.Albedo = Substituted(@, 9990, Mg.Albedo),
              !.LiquidPrecip = Substituted(@, 9990, Mg.LiquidPrecip)]

(* "Check out missing values": the values of a record after the checks *)
CheckedRecord(r, Mg) ==
    [r EXCEPT !.DryBulb = Substituted(@, 999, Mg.DryBulb),
              !.DewPoint = Substituted(@, 999, Mg.DewPoint),
              !.RelHum = Substituted(@, 9990, Mg.RelHumid),
              !.AtmPress = IF Substituted(@, 9999990, Mg.StnPres) <= 310000 \/ Substituted(@, 9999990, Mg.StnPres) > 1200000 THEN Mg.StnPres ELSE Substituted(@, 9999990, Mg.StnPres),
              !.WindDir = Substituted(@, 9990, Mg.WindDir),
              !.WindSpeed = Substituted(@, 9990, Mg.WindSpd),
              !.TotalSkyCover = Substituted(@, 990, Mg.TotSkyCvr),
              !.OpaqueSkyCover = Substituted(@, 990, Mg.OpaqSkyCvr),
              !.SnowDepth = Substituted(@, 9990, Mg.SnowDepth),
              !.Albedo = Substituted(@, 9990, Mg.Albedo),
              !.LiquidPrecip = Substituted(@, 9990, Mg.LiquidPrecip)]

(* the missing counters after the checks of a record *)
MissedAfter(r, Md) ==
    [Md EXCEPT !.DryBulb = @ + Tally(r.DryBulb >= 999),
               !.DewPoint = @ + Tally(r.DewPoint >= 999),
               !.RelHumid = @ + Tally(r.RelHum >= 9990),
               !.StnPres = @ + Tally(r.AtmPress >= 9999990),
               !.WindDir = @ + Tally(r.WindDir >= 9990),
               !.WindSpd = @ + Tally(r.WindSpeed >= 9990),
               !.TotSkyCvr = @ + Tally(r.TotalSkyCover >= 990),
               !.OpaqSkyCvr = @ + Tally(r.OpaqueSkyCover >= 990),
               !.SnowDepth = @ + Tally(r.SnowDepth >= 9990),
               !.Albedo = @ + Tally(r.Albedo >= 9990),
               !.LiquidPrecip = @ + Tally(r.LiquidPrecip >= 9990)]

(* the out-of-range counters after the checks of a record: each test is    *)
(* made on the value the missing check left                                *)
OutOfRangeAfter(r, Mg, Oor) ==
    [Oor EXCEPT !.DryBulb = @ + Tally(Substituted(r.DryBulb, 999, Mg.DryBulb) < -900 \/ Substituted(r.DryBulb, 999, Mg.DryBulb) > 700),
                !.DewPoint = @ + Tally(Substituted(r.DewPoint, 999, Mg.DewPoint) < -900 \/ Substituted(r.DewPoint, 999, Mg.DewPoint) > 700),
                !.RelHumid = @ + Tally(Substituted(r.RelHum, 9990, Mg.RelHumid) < 0 \/ Substituted(r.RelHum, 9990, Mg.RelHumid) > 1100),
                !.StnPres = @ + Tally(Substituted(r.AtmPress, 9999990, Mg.StnPres) <= 310000 \/ Substituted(r.AtmPress, 9999990, Mg.StnPres) > 1200000),
                !.WindDir = @ + Tally(Substituted(r.WindDir, 9990, Mg.WindDir) < 0 \/ Substituted(r.WindDir, 9990, Mg.WindDir) > 3600),
                !.WindSpd = @ + Tally(Substituted(r.WindSpeed, 9990, Mg.WindSpd) < 0 \/ Substituted(r.WindSpeed, 9990, Mg.WindSpd) > 400)]

(* the last values read become the "missing" values of the next record;    *)
(* the liquid precipitation is not carried over                            *)
MissingAfter(c, Mg) ==
    [Mg EXCEPT !.DryBulb = c.DryBulb, !.DewPoint = c.DewPoint, !.RelHumid = c.RelHum,
               !.StnPres = c.AtmPress, !.WindDir = c.WindDir, !.WindSpd = c.WindSpeed,
               !.TotSkyCvr = c.TotalSkyCover, !.OpaqSkyCvr = c.OpaqueSkyCover,
               !.Visibility = c.Visibility, !.Ceiling = c.CeilHeight,
               !.PrecipWater = c.PrecipWater, !.AerOptDepth = c.AerosolOptDepth,
               !.SnowDepth = c.SnowDepth, !.DaysLastSnow = c.DaysSinceLastSnow,
               !.Albedo = c.Albedo]

(* the values of a record stored in the arrays of tomorrow's day *)
TomorrowOf(c) ==
    [OutDryBulbTemp |-> c.DryBulb, OutDewPointTemp |-> c.DewPoint, OutBaroPress |-> c.AtmPress,
     OutRelHum |-> c.RelHum, WindSpeed |-> c.WindSpeed, WindDir |-> c.WindDir]

RdIdle ==
    /\ DisplayWeatherMissingDataWarnings = FALSE
    /\ Missing = MissingData
    /\ Missed = MissingDataCounts
    /\ OutOfRange = RangeDataCounts
    /\ rdEnvrn = 0
    /\ rdHour = 0
    /\ rdRead = <<>>
    /\ rdTomorrow = <<>>
    /\ rdTomorrowVariables = [Month |-> 0, DayOfMonth |-> 0]
    /\ rdFatal = FALSE

(* counters that carry on from one environment to the next *)
KeepCounts(counts) == counts

(* the values and counters InitializeWeather starts an environment with *)
StartOverMissing(Mg) == InitialMissing
StartOverCounts(counts) == [f \in DOMAIN counts |-> 0]

(* InitializeWeather at the beginning of an environment: the missing       *)
(* values and the counters start over; a weather file environment then     *)
(* reads its first day, a design day environment reads nothing             *)
RdBeginEnvironment ==
    /\ rdHour = 0
    /\ ~rdFatal
    /\ rdEnvrn < MaxEnvironments
    /\ rdEnvrn' = rdEnvrn + 1
    /\ Missing' = StartOverMissing(Missing)
    /\ Missed' = StartOverCounts(Missed)
    /\ OutOfRange' = StartOverCounts(OutOfRange)
    /\ rdRead' = <<>>
    /\ \E weatherFile \in BOOLEAN : rdHour' = IF weatherFile THEN 1 ELSE 0
    /\ UNCHANGED <<DisplayWeatherMissingDataWarnings, rdTomorrow, rdTomorrowVariables, rdFatal>>
    /\ UNCHANGED notRdVars

(* the date and hour a record of the file carries *)
Stamped(rec, WDay, WHour) == [WMonth |-> 1, WDay |-> WDay, WHour |-> WHour] @@ rec

(* the dates and hours of the records offered to the reader at an hour:    *)
(* the first record of a day is the one the search has found; the later    *)
(* ones carry the hour expected or another, the same day or the next       *)
Stamps(Hour) ==
    IF Hour = 1 THEN { <<1, 1>>, <<1, 2>> }
    ELSE { <<1, Hour>>, <<2, Hour>>, <<1, (Hour % HoursInDay) + 1>> }

(* the records of the file at an hour: the variants of the good record     *)
(* carry the date and the hour expected                                    *)
RecordsAt(Hour) ==
    { Stamped(rec, 1, Hour) : rec \in Records } \cup { Stamped(GoodRecord, st[1], st[2]) : st \in Stamps(Hour) }

(* if (Hour != WHour) ShowFatalError *)
WrongHour(Hour, WHour) == Hour # WHour

(* ReadEPlusWeatherForDay, one pass of its loop over the hours: the record *)
(* is read and its hour compared; its values are checked, stored and       *)
(* remembered, and the first record gives the day its date                 *)
RdReadRecord ==
    /\ rdHour >= 1
    /\ ~rdFatal
    /\ \E raw \in RecordsAt(rdHour) :
         /\ rdRead' = Append(rdRead, raw)
         /\ IF WrongHour(rdHour, raw.WHour)
            THEN /\ rdFatal' = TRUE
                 /\ UNCHANGED <<Missed, OutOfRange, Missing, rdTomorrow, rdTomorrowVariables, rdHour>>
            ELSE /\ Missed' = MissedAfter(SetPossibleMissing(raw), IF DisplayWeatherMissingDataWarnings THEN MissedRadiation(raw, Missed) ELSE Missed)
                 /\ OutOfRange' = OutOfRangeAfter(SetPossibleMissing(raw), Missing, IF DisplayWeatherMissingDataWarnings THEN OutOfRangeRadiation(raw, OutOfRange) ELSE OutOfRange)
                 /\ Missing' = MissingAfter(CheckedRecord(SetPossibleMissing(raw), Missing), Missing)
                 /\ rdTomorrow' = Append(IF rdHour = 1 THEN <<>> ELSE rdTomorrow, TomorrowOf(CheckedRecord(SetPossibleMissing(raw), Missing)))
                 /\ rdTomorrowVariables' = IF rdHour = 1 THEN [Month |-> raw.WMonth, DayOfMonth |-> raw.WDay] ELSE rdTomorrowVariables
                 /\ rdHour' = IF rdHour = HoursInDay THEN 0 ELSE rdHour + 1
                 /\ UNCHANGED rdFatal
    /\ UNCHANGED <<DisplayWeatherMissingDataWarnings, rdEnvrn>>
    /\ UNCHANGED notRdVars

RdNext == RdBeginEnvironment \/ RdReadRecord


(***************************************************************************)
(* Specification SpecLine: InterpretWeatherDataLine on the end of a data   *)
(* line, from the weather codes field on                                   *)
(***************************************************************************)
(* RField22 .. RField27: precipitable water, aerosol optical depth, snow   *)
(* depth, days since last snow, albedo, liquid precipitation               *)
FirstTrailing == 22
LastTrailing == 27
TrailingFields == FirstTrailing..LastTrailing

(* the texts a piece of the line may hold: a number, nothing, or text that *)
(* is no number                                                            *)
FieldTexts == { "5", "", "x" }
CodesTexts == { "999999999", "" }

RECURSIVE TailsOfLength(_)
TailsOfLength(n) ==
    IF n = 0 THEN { <<>> }
    ELSE { Append(t, x) : t \in TailsOfLength(n - 1), x \in FieldTexts }

Lines ==
    { <<c>> \o t : c \in CodesTexts,
                  t \in UNION { TailsOfLength(n) : n \in 0..(LastTrailing - FirstTrailing + 1) } }

(* a list-directed read of one number from a text *)
ListRead(text) ==
    CASE text = "5" -> [err |-> FALSE, v |-> 5]
      [] text = "999999999" -> [err |-> FALSE, v |-> 999999999]
      [] OTHER -> [err |-> TRUE, v |-> 0]

(* a list-directed read from a text that holds nothing is the library's    *)
(* to settle: an error, or no error with the variable, which the function  *)
(* never initialises, left as it was                                       *)
EmptyReads == { [err |-> TRUE, v |-> 0], [err |-> FALSE, v |-> 0], [err |-> FALSE, v |-> 999] }

ReadOf(text, empty) == IF text = "" THEN empty ELSE ListRead(text)

NotInterpreted == [read |-> FALSE, fatal |-> FALSE, RField |-> [k \in TrailingFields |-> 0]]

(* Label901: ShowFatalError("Error in Reading Weather Data") *)
Label901 == [read |-> TRUE, fatal |-> TRUE, RField |-> [k \in TrailingFields |-> 0]]

(* Line.erase(0, Pos + 1): with no comma Pos + 1 is 0 and nothing goes *)
EraseThroughComma(Line) == IF Len(Line) >= 2 THEN Tail(Line) ELSE Line

(* a field read from the rest of the line, every later field 999.0 *)
RestIsField(k, F, v) ==
    [j \in TrailingFields |-> IF j < k THEN F[j] ELSE IF j = k THEN v ELSE 999]

(* the nested reads of RField22 .. RField27, from field k on; F holds the  *)
(* fields read so far                                                      *)
RECURSIVE ReadTrailing(_, _, _, _)
ReadTrailing(k, Line, F, empty) ==
    IF k > LastTrailing THEN [read |-> TRUE, fatal |-> FALSE, RField |-> F]
    ELSE IF Len(Line) >= 2
    THEN IF Line[1] # ""
         THEN IF ListRead(Line[1]).err THEN Label901
              ELSE ReadTrailing(k + 1, Tail(Line), [F EXCEPT ![k] = ListRead(Line[1]).v], empty)
         ELSE ReadTrailing(k + 1, Tail(Line), [F EXCEPT ![k] = 999], empty)
    ELSE IF k <= 25
    THEN IF ReadOf(Line[1], empty).err THEN Label901
         ELSE [read |-> TRUE, fatal |-> FALSE, RField |-> RestIsField(k, F, ReadOf(Line[1], empty).v)]
    ELSE [read |-> TRUE, fatal |-> FALSE,
          RField |-> [j \in TrailingFields |-> IF j < k THEN F[j] ELSE 999]]

(* InterpretWeatherDataLine from the weather codes on *)
InterpretWeatherDataLine(Line, empty) ==
    ReadTrailing(FirstTrailing, EraseThroughComma(Line), [k \in TrailingFields |-> 0], empty)

LnIdle ==
    /\ lnLine = <<"">>
    /\ lnOut = NotInterpreted

(***************************************************************************)
(* Specification SpecDate: the date functions applied to a date            *)
(***************************************************************************)
NotMade == [made |-> FALSE, v |-> 0]
Made(v) == [made |-> TRUE, v |-> v]

(* a reading of the weekday that leaves Zeller's 0 (Saturday) as it is *)
CalculateDayOfWeekKeepingZero(JulianDate) ==
    LET g == JGDateToGregorian(JulianDate)
        Gmm == IF g.mm < 3 THEN g.mm + 12 ELSE g.mm
        Gyyyy == IF g.mm < 3 THEN g.yyyy - 1 ELSE g.yyyy
    IN  mod(g.dd + TruncDiv(13 * (Gmm + 1), 5) + Gyyyy + TruncDiv(Gyyyy, 4)
                + 6 * TruncDiv(Gyyyy, 100) + TruncDiv(Gyyyy, 400), 7)

(* CalculateDayOfWeek: the weekday of a Julian day number *)
CalculateDayOfWeek(JulianDate) ==
    LET g == JGDateToGregorian(JulianDate)
        Gmm == IF g.mm < 3 THEN g.mm + 12 ELSE g.mm
        Gyyyy == IF g.mm < 3 THEN g.yyyy - 1 ELSE g.yyyy
        DayOfWeek == mod(g.dd + TruncDiv(13 * (Gmm + 1), 5) + Gyyyy + TruncDiv(Gyyyy, 4)
                           + 6 * TruncDiv(Gyyyy, 100) + TruncDiv(Gyyyy, 400), 7)
    IN  IF DayOfWeek = 0 THEN 7 ELSE DayOfWeek

(* the dates of the years checked *)
Dates ==
    { [y |-> y, m |-> m, d |-> d] : y \in DateYears, m \in 1..12, d \in 1..31 }

ValidDate(date) == validMonthDay(date.m, date.d, IF isLeapYear(date.y) THEN 1 ELSE 0)

DtIdle ==
    /\ dtDate = [y |-> 0, m |-> 0, d |-> 0]
    /\ dtJulian = NotMade
    /\ dtBack = NotMade
    /\ dtDirect = NotMade
    /\ dtFromJulian = NotMade
    /\ dtLeap = NotMade

(***************************************************************************)
(* Specification SpecInterp: the hourly values of the days read turned     *)
(* into values for every timestep                                          *)
(***************************************************************************)
(* a value n / d, d > 0 *)
Ratio(n, d) == [n |-> n, d |-> d]
RatioLeq(a, b) == a.n * b.d <= b.n * a.d
RatioEq(a, b) == a.n * b.d = b.n * a.d

TimeSteps == 1..6
MaxDaysRead == 2

(* fields with the weights WtPrevHour and WtNow, and the solar fields *)
LinearFields ==
    { "OutDryBulbTemp", "OutBaroPress", "OutDewPointTemp", "OutRelHum", "WindSpeed", "HorizIRSky",
      "SkyTemp", "LiquidPrecip" }
SolarFields == { "DifSolarRad", "BeamSolarRad" }
InterpolatedFields == LinearFields \cup SolarFields \cup { "WindDir" }

(* hourly values a file may hold: wind directions either side of north,    *)
(* one of them negative, and hours with and without sun and rain           *)
HourSample(temp, wind, sun, rain) ==
    [ f \in InterpolatedFields |->
        CASE f = "OutDryBulbTemp" -> temp
          [] f = "OutBaroPress" -> 101000 + temp
          [] f = "OutDewPointTemp" -> temp - 3
          [] f = "OutRelHum" -> 50 - temp
          [] f = "WindSpeed" -> sun \div 50
          [] f = "HorizIRSky" -> 300 + temp
          [] f = "SkyTemp" -> temp - 10
          [] f = "LiquidPrecip" -> rain
          [] f = "WindDir" -> wind
          [] f = "DifSolarRad" -> sun \div 2
          [] f = "BeamSolarRad" -> sun ]

HourSamples ==
    { HourSample(-5, 350, 0, 0), HourSample(10, 10, 100, 2), HourSample(0, -350, 300, 2) }

DaySamples == [1..HoursInDay -> HourSamples]

(* SetupInterpolationValues: Interpolation(tloop) = tloop / N, as tloop *)
InterpolationWeights(N) == [tloop \in 1..N |-> IF N = 1 THEN N ELSE IF tloop <= N THEN tloop ELSE N]

(* weights that drop by 2/N per step from the half hour *)
SolarInterpolationWeightsDoubleStep(N) ==
    [tloop \in 1..N |->
        IF tloop = N \div 2 THEN 2 * N
        ELSE IF tloop > N \div 2 THEN 2 * N - 4 * (tloop - N \div 2)
        ELSE 2 * N - 4 * ((N \div 2) - tloop)]

(* SetupInterpolationValues: SolarInterpolation, over 2N *)
SolarInterpolationWeights(N) ==
    LET halfpoint == N \div 2
    IN  IF mod(N, 2) = 0
        THEN [tloop \in 1..N |->
                 IF tloop = halfpoint THEN 2 * N
                 ELSE IF tloop > halfpoint THEN 2 * N - 2 * (tloop - halfpoint)
                 ELSE 2 * N - 2 * (halfpoint - tloop)]
        ELSE IF N = 1 THEN <<1>>
        ELSE IF N = 3 THEN <<5, 5, 3>>
        ELSE [tloop \in 1..N |->
                 IF tloop \in {halfpoint, halfpoint + 1} THEN 2 * N - 1
                 ELSE IF tloop > halfpoint + 1 THEN 2 * N - 1 - 2 * (tloop - halfpoint - 1)
                 ELSE 2 * N - 1 - 2 * (halfpoint - tloop)]

(* the three solar weights of timestep TS over 2N: previous hour, hour,    *)
(* next hour                                                               *)
SolarWeights(N, SolarInterp, TS) ==
    LET WgtHourNow == SolarInterp[TS]
    IN  IF N = 1 THEN [Prev |-> 0, Now |-> WgtHourNow, Next |-> 2 * N - WgtHourNow]
        ELSE IF WgtHourNow = 2 * N THEN [Prev |-> 0, Now |-> WgtHourNow, Next |-> 0]
        ELSE IF 2 * TS < N THEN [Prev |-> 2 * N - WgtHourNow, Now |-> WgtHourNow, Next |-> 0]
        ELSE [Prev |-> 0, Now |-> WgtHourNow, Next |-> 2 * N - WgtHourNow]

(* interpolateWindDirection, curHrWeight = WtNow / N *)
interpolateWindDirection(prevHrWindDir, curHrWindDir, WtNow, N) ==
    LET diff == IF curHrWindDir >= prevHrWindDir THEN curHrWindDir - prevHrWindDir
                ELSE prevHrWindDir - curHrWindDir
        prevAng == IF diff > 180 /\ curHrWindDir > prevHrWindDir THEN prevHrWindDir + 360
                   ELSE prevHrWindDir
        curAng == IF diff > 180 /\ ~(curHrWindDir > prevHrWindDir) THEN curHrWindDir + 360
                  ELSE curHrWindDir
    IN  Ratio(mod(prevAng * N + (curAng - prevAng) * WtNow, 360 * N), N)

(* the value of field f at timestep TS of an hour, from the values of the  *)
(* hour before, the hour and the hour after                                *)
InterpolatedValue(f, N, Interp, SolarInterp, TS, last, now, next) ==
    CASE f = "WindDir" -> interpolateWindDirection(last, now, Interp[TS], N)
      [] f = "LiquidPrecip" -> Ratio(last * (N - Interp[TS]) + now * Interp[TS], N * N)
      [] f \in SolarFields ->
             Ratio(last * SolarWeights(N, SolarInterp, TS).Prev + now * SolarWeights(N, SolarInterp, TS).Now
                       + next * SolarWeights(N, SolarInterp, TS).Next, 2 * N)
      [] OTHER -> Ratio(last * (N - Interp[TS]) + now * Interp[TS], N)

(* the hour before hour Hour of the day: the last hour of the day before,  *)
(* or of the day itself when it is the first                               *)
LastHrOf(day, Hour, lastSet, last) ==
    IF Hour > 1 THEN day[Hour - 1]
    ELSE IF lastSet THEN last ELSE day[HoursInDay]

(* ReadEPlusWeatherForDay, "Create interpolated weather for timestep       *)
(* orientation": with one timestep an hour the hourly values stay          *)
InterpolatedDay(N, Interp, SolarInterp, day, lastSet, last) ==
    [Hour \in 1..HoursInDay |->
        [TS \in 1..N |->
            [f \in InterpolatedFields |->
                IF N > 1
                THEN InterpolatedValue(f, N, Interp, SolarInterp, TS, LastHrOf(day, Hour, lastSet, last)[f],
                                       day[Hour][f],
                                       day[IF Hour = HoursInDay THEN 1 ELSE Hour + 1][f])
                ELSE Ratio(day[Hour][f], 1)]]]

IpIdle ==
    /\ NumOfTimeStepInHour = 1
    /\ Interpolation = <<>>
    /\ SolarInterpolation = <<>>
    /\ LastHourSet = FALSE
    /\ LastHr = HourSample(0, 0, 0, 0)
    /\ Wthr = <<>>
    /\ ipTomorrow = <<>>
    /\ ipDays = 0
    /\ ipOld = HourSample(0, 0, 0, 0)

(***************************************************************************)
(* Specification SpecDesignDay: the beam and diffuse radiation of a design *)
(* day                                                                     *)
(***************************************************************************)
(* DataEnvironment::SunIsUpValue, 0.00001, in millionths *)
SunIsUpValue == 10

SolarModels == { "ASHRAE_ClearSky", "ASHRAE_Tau", "ASHRAE_Tau2017", "Zhang_Huang", "SolarModel_Schedule" }

(* design days: the tau models with taus given and with a beam tau of 0 *)
DesDayInputs ==
    { [SolarModel |-> sm, TauB |-> tb, TauD |-> 2, Ignore |-> ig, N |-> n] :
          sm \in SolarModels, tb \in {0, 4}, ig \in { {}, {"Solar"}, {"Beam"} }, n \in {1, 2} }
    \ { d \in [SolarModel : SolarModels, TauB : {0}, TauD : {2}, Ignore : { {}, {"Solar"}, {"Beam"} }, N : {1, 2}] :
            d.SolarModel \notin {"ASHRAE_Tau", "ASHRAE_Tau2017"} }

(* timesteps: night with schedules of 0, the sun above the horizon by less *)
(* than SunIsUpValue with schedules above 0, and day                       *)
TimestepSamples ==
    { [CosZenith |-> -500000, Beam |-> 0, Diff |-> 0],
      [CosZenith |-> 5, Beam |-> 50, Diff |-> 20],
      [CosZenith |-> 800000, Beam |-> 700, Diff |-> 100] }

DesignDaySamples(N) == [1..HoursInDay -> [1..N -> TimestepSamples]]

(* what the formulas of a solar model give with the sun up; the formulas   *)
(* themselves (exp, pow) are left out                                      *)
SunUpRadiation == { [Beam |-> 800, Diff |-> 100], [Beam |-> 0, Diff |-> 60] }

NoRadiation == [Beam |-> 0, Diff |-> 0]

(* the sun taken as down below the horizon only *)
BelowHorizon(CosZenith) == CosZenith < 0

(* CosZenith < SunIsUpValue *)
BelowSunIsUpValue(CosZenith) == CosZenith < SunIsUpValue

(* ASHRAETauModel *)
ASHRAETauModel(CosZen, TauB, TauD, up) ==
    IF BelowSunIsUpValue(CosZen) \/ TauB <= 0 \/ TauD <= 0 THEN NoRadiation ELSE up

(* SetUpDesignDay, "Generate solar values for timestep" *)
SolarOfTimestep(input, sample, up) ==
    LET rad == IF input.SolarModel = "SolarModel_Schedule"
               THEN [Beam |-> sample.Beam, Diff |-> sample.Diff]
               ELSE IF BelowSunIsUpValue(sample.CosZenith) THEN NoRadiation
               ELSE IF input.SolarModel \in {"ASHRAE_Tau", "ASHRAE_Tau2017"}
               THEN ASHRAETauModel(sample.CosZenith, input.TauB, input.TauD, up)
               ELSE up
    IN  [Beam |-> IF input.Ignore \cap {"Solar", "Beam"} # {} THEN 0 ELSE rad.Beam,
         Diff |-> IF input.Ignore \cap {"Solar", "Diffuse"} # {} THEN 0 ELSE rad.Diff]

RECURSIVE SumOver(_, _, _)
SumOver(row, f, n) == IF n = 0 THEN 0 ELSE row[n][f] + SumOver(row, f, n - 1)

(* "back-fill hour values from timesteps", over 2N *)
BackFilled(T, N, f) ==
    [Hour \in 1..HoursInDay |->
        T[mod(Hour + HoursInDay - 2, HoursInDay) + 1][N][f] + T[Hour][N][f]
            + 2 * SumOver(T[Hour], f, N - 1)]

DdIdle ==
    /\ ddInput = [SolarModel |-> "ASHRAE_ClearSky", TauB |-> 0, TauD |-> 0, Ignore |-> {}, N |-> 1]
    /\ ddSun = <<>>
    /\ ddSchedule = <<>>
    /\ ddTomorrow = <<>>
    /\ ddWthr = <<>>

(***************************************************************************)
(* Specification SpecCurrent: SetCurrentWeather at the timesteps of a day  *)
(***************************************************************************)
MaxCalls == 3
StepsInHour == 2

(* GroundReflectances(Month), SnowGndRefModifier, in thousandths and as a  *)
(* factor                                                                  *)
cwGroundReflectance == 400
cwSnowGndRefModifier == 2

(* the values of a timestep in the Today arrays: a clear hour with the sun *)
(* up, a night hour with snow and solar values left in the file, and an    *)
(* hour with rain and the dew point above the dry bulb; CosZenith in       *)
(* millionths                                                              *)
TodaySamples ==
    << [OutDryBulbTemp |-> 20, OutDewPointTemp |-> 10, WindSpeed |-> 3, WindDir |-> 90,
        DifSolarRad |-> 100, BeamSolarRad |-> 700, LiquidPrecip |-> 0, IsRain |-> FALSE,
        IsSnow |-> FALSE, CosZenith |-> 800000],
       [OutDryBulbTemp |-> -5, OutDewPointTemp |-> -8, WindSpeed |-> 0, WindDir |-> 350,
        DifSolarRad |-> 20, BeamSolarRad |-> 50, LiquidPrecip |-> 0, IsRain |-> FALSE,
        IsSnow |-> TRUE, CosZenith |-> -500000],
       [OutDryBulbTemp |-> 8, OutDewPointTemp |-> 12, WindSpeed |-> 6, WindDir |-> 10,
        DifSolarRad |-> 60, BeamSolarRad |-> 0, LiquidPrecip |-> 2000, IsRain |-> TRUE,
        IsSnow |-> TRUE, CosZenith |-> 300000] >>

TodayDays ==
    { [Hour \in 1..HoursInDay |-> [TS \in 1..StepsInHour |-> TodaySamples[((Hour + TS + k) % 3) + 1]]] :
          k \in 0..2 }

CurrentInputs ==
    [Today : TodayDays, EMSOutDryBulbOverrideOn : BOOLEAN, UseRainValues : BOOLEAN,
     UseSnowValues : BOOLEAN]

EMSOutDryBulbOverrideValue == 25

(* PsyTwbFnTdbWPb of the humidity ratio of the dry bulb and the relative   *)
(* humidity: a wet bulb between dew point and dry bulb stands for it       *)
PsyTwbFnTdbWPb(Tdb, Tdp) == (Tdb + Tdp) \div 2

NoCurrentWeather ==
    [set |-> FALSE, NextHour |-> 0, CurrentTime |-> 0, SimTimeSteps |-> 0, SunIsUp |-> FALSE,
     OutDryBulbTemp |-> 0, OutDewPointTemp |-> 0, OutWetBulbTemp |-> 0, WindSpeed |-> 0,
     WindDir |-> 0, DifSolarRad |-> 0, BeamSolarRad |-> 0, GndSolarRad |-> 0,
     LiquidPrecipitation |-> 0, IsRain |-> FALSE, IsSnow |-> FALSE, RptIsRain |-> 0,
     RptIsSnow |-> 0, GndReflectance |-> 0]

Larger(a, b) == IF a >= b THEN a ELSE b
Smaller(a, b) == IF a <= b THEN a ELSE b

(* SetCurrentWeather from the reflectance GndReflectance starts at;        *)
(* CurrentTime over StepsInHour, GndSolarRad in millionths of W/m2 with    *)
(* SOLCOS(3) taken to thousandths, LiquidPrecipitation in thousandths of   *)
(* a mm                                                                    *)
CurrentWeatherFrom(in, clock, GndReflectance0) ==
    LET today == in.Today[clock.HourOfDay][clock.TimeStep]
        dryBulb == IF in.EMSOutDryBulbOverrideOn THEN EMSOutDryBulbOverrideValue
                   ELSE today.OutDryBulbTemp
        wetBulb == Smaller(PsyTwbFnTdbWPb(dryBulb, today.OutDewPointTemp), dryBulb)
        snow == in.UseSnowValues /\ today.IsSnow
        rain == in.UseRainValues /\ today.IsRain
        refl == IF snow THEN Larger(Smaller(GndReflectance0 * cwSnowGndRefModifier, 1000), 0)
                ELSE GndReflectance0
        up == ~(today.CosZenith < SunIsUpValue)
    IN  [set |-> TRUE,
         NextHour |-> IF clock.HourOfDay = HoursInDay THEN 1 ELSE clock.HourOfDay + 1,
         CurrentTime |-> (clock.HourOfDay - 1) * StepsInHour + clock.TimeStep,
         SimTimeSteps |-> (clock.HourOfDay - 1) * StepsInHour + clock.TimeStep,
         SunIsUp |-> up,
         OutDryBulbTemp |-> dryBulb,
         OutDewPointTemp |-> Smaller(today.OutDewPointTemp, wetBulb),
         OutWetBulbTemp |-> wetBulb,
         WindSpeed |-> today.WindSpeed,
         WindDir |-> today.WindDir,
         DifSolarRad |-> IF up THEN today.DifSolarRad ELSE 0,
         BeamSolarRad |-> IF up THEN today.BeamSolarRad ELSE 0,
         GndSolarRad |-> IF up
                         THEN Larger((today.BeamSolarRad * (today.CosZenith \div 1000)
                                          + today.DifSolarRad * 1000) * refl, 0)
                         ELSE 0,
         LiquidPrecipitation |-> today.LiquidPrecip,
         IsRain |-> rain,
         IsSnow |-> snow,
         RptIsRain |-> IF rain THEN 1 ELSE 0,
         RptIsSnow |-> IF snow THEN 1 ELSE 0,
         GndReflectance |-> refl]

(* the snow modifier applied to the reflectance the last call left *)
SetCurrentWeatherOnLastReflectance(in, clock, cur) ==
    CurrentWeatherFrom(in, clock, IF cur.set THEN cur.GndReflectance ELSE cwGroundReflectance)

(* SetCurrentWeather: GndReflectance = GroundReflectances(Month) first *)
SetCurrentWeather(in, clock, cur) == CurrentWeatherFrom(in, clock, cwGroundReflectance)

CwIdle ==
    /\ cwIn = [Today |-> <<>>, EMSOutDryBulbOverrideOn |-> FALSE, UseRainValues |-> FALSE,
               UseSnowValues |-> FALSE]
    /\ cwClock = [HourOfDay |-> 1, TimeStep |-> 1]
    /\ cwCur = NoCurrentWeather
    /\ cwCalls = 0
    /\ cwFirst = NoCurrentWeather

(***************************************************************************)
(* Specification SpecOpen: OpenEPlusWeatherFile looks for the headers      *)
(***************************************************************************)
NumHeaders == 8

Header ==
    << "LOCATION", "DESIGN CONDITIONS", "TYPICAL/EXTREME PERIODS", "GROUND TEMPERATURES",
       "HOLIDAYS/DAYLIGHT SAVING", "COMMENTS 1", "COMMENTS 2", "DATA PERIODS" >>

(* A line is a sequence of pieces: a space, a header's text, other text    *)
(* ("x": the fields that follow a header, or a data record), or the        *)
(* character iUnicode_end.  Positions count pieces from 1; 0 stands for    *)
(* std::string::npos.                                                      *)
RECURSIVE FirstAt(_, _, _)
FirstAt(Line, Wanted, From) ==
    IF From > Len(Line) THEN 0
    ELSE IF Line[From] \in Wanted THEN From
    ELSE FirstAt(Line, Wanted, From + 1)

Pieces == {" ", "x", "unicode"} \cup {Header[h] : h \in 1..NumHeaders}

(* FindNonSpace(Line): the first character that is not a space *)
FindNonSpace(Line) == FirstAt(Line, Pieces \ {" "}, 1)

(* index(Line, Header(HdLine)): where the header's text first occurs *)
index(Line, Text) == FirstAt(Line, {Text}, 1)

(* if (Pos != HdPos) continue; the line is taken when both are equal, as   *)
(* they are when the line has no character but spaces                      *)
HeaderAtFirstNonSpace(Line, Hd) == FindNonSpace(Line) = index(Line, Header[Hd])

(* the last character of the line is iUnicode_end *)
EndsUnicode(Line) == Len(Line) > 0 /\ Line[Len(Line)] = "unicode"

HeaderLine(h) == <<Header[h], "x">>
DataLine == <<"x">>

(* a file with its eight headers in order and one data record *)
GoodHeaders == [h \in 1..NumHeaders |-> HeaderLine(h)] \o <<DataLine>>

Without(f, i) == SubSeq(f, 1, i - 1) \o SubSeq(f, i + 1, Len(f))
Inserted(f, i, Line) == SubSeq(f, 1, i - 1) \o <<Line>> \o SubSeq(f, i, Len(f))
Replaced(f, i, Line) == [f EXCEPT ![i] = Line]
Swapped(f, i) == [f EXCEPT ![i] = f[i + 1], ![i + 1] = f[i]]

(* files: the good one; a header missing, indented, repeated, quoted in    *)
(* another line, or replaced by an empty or an all-space line; two headers *)
(* exchanged; an empty line or a line ending in iUnicode_end added         *)
HeaderFiles ==
    {GoodHeaders}
    \cup { Without(GoodHeaders, h) : h \in 1..NumHeaders }
    \cup { Replaced(GoodHeaders, h, <<" ", " ">> \o HeaderLine(h)) : h \in 1..NumHeaders }
    \cup { Inserted(GoodHeaders, h, HeaderLine(h)) : h \in 1..NumHeaders }
    \cup { Replaced(GoodHeaders, h, <<"x", Header[h]>>) : h \in 1..NumHeaders }
    \cup { Replaced(GoodHeaders, h, <<>>) : h \in 1..NumHeaders }
    \cup { Replaced(GoodHeaders, h, <<" ", " ">>) : h \in 1..NumHeaders }
    \cup { Swapped(GoodHeaders, h) : h \in 1..(NumHeaders - 1) }
    \cup { Inserted(GoodHeaders, h, <<>>) : h \in 1..NumHeaders }
    \cup { Inserted(GoodHeaders, h, <<"x", "unicode">>) : h \in 1..NumHeaders }

OpIdle ==
    /\ opFile = <<>>
    /\ opRead = 0
    /\ HdLine = 1
    /\ StillLooking = FALSE
    /\ opProcessed = <<>>
    /\ opFatal = FALSE

(***************************************************************************)
(* Specification SpecSetup: SetupEnvironmentTypes on run periods that      *)
(* cross a year boundary                                                   *)
(***************************************************************************)
(* run periods of one or two year boundaries from a common or a leap year, *)
(* over the end of February, the first and the last days of the year; a    *)
(* February 29 only where the year has one and the file allows it          *)
CrossingRunPeriods ==
    { in \in [startYear : {2015, 2016}, startDate : {<<1, 1>>, <<2, 27>>, <<2, 28>>, <<2, 29>>, <<3, 1>>, <<12, 31>>},
              years : {1, 2}, endDate : {<<1, 1>>, <<2, 28>>, <<2, 29>>, <<3, 1>>, <<12, 30>>},
              WFAllowsLeapYears : BOOLEAN] :
        /\ in.startDate = <<2, 29>> => isLeapYear(in.startYear) /\ in.WFAllowsLeapYears
        /\ in.endDate = <<2, 29>> => isLeapYear(in.startYear + in.years) /\ in.WFAllowsLeapYears }

NoEnvironment == [KindOfEnvrn |-> 0]

SuIdle ==
    /\ suIn = [startYear |-> 0, startDate |-> <<1, 1>>, years |-> 0, endDate |-> <<1, 1>>,
               WFAllowsLeapYears |-> FALSE]
    /\ suEnv = NoEnvironment

DSTSpec(st, sw, sm, sd, et, ew, em, ed) ==
    [StDateType |-> st, StWeekDay |-> sw, StMon |-> sm, StDay |-> sd,
     EnDateType |-> et, EnWeekDay |-> ew, EnMon |-> em, EnDay |-> ed]

SpecialDay(dt, mon, day, wd, dur, type, wf) ==
    [DateType |-> dt, Month |-> mon, Day |-> day, WeekDay |-> wd, Duration |-> dur,
     DayType |-> type, WthrFile |-> wf]

(* last Sunday of March to last Sunday of October *)
DSTLast == DSTSpec(LastDayInMonth, 1, 3, 0, LastDayInMonth, 1, 10, 0)
(* October 1 to March 15: the period wraps over the end of the year *)
DSTWrap == DSTSpec(MonthDay, 0, 10, 1, MonthDay, 0, 3, 15)
(* first Monday of January to first Sunday of November *)
DSTJan == DSTSpec(NthDayInMonth, 2, 1, 1, NthDayInMonth, 1, 11, 1)
(* fifth Monday of February: most years have none *)
DSTFifth == DSTSpec(NthDayInMonth, 2, 2, 5, MonthDay, 0, 11, 1)

DSTChoices == {DSTLast, DSTWrap, DSTJan, DSTFifth}

NewYearsDay == SpecialDay(MonthDay, 1, 1, 0, 1, 1, FALSE)
FirstMondayJan == SpecialDay(NthDayInMonth, 1, 1, 2, 1, 1, FALSE)
Christmas == SpecialDay(MonthDay, 12, 25, 0, 3, 2, FALSE)
July4 == SpecialDay(MonthDay, 7, 4, 0, 2, 1, FALSE)
July5 == SpecialDay(MonthDay, 7, 5, 0, 1, 3, FALSE)
LastMondayMay == SpecialDay(LastDayInMonth, 5, 0, 2, 1, 1, TRUE)
NewYearsEve == SpecialDay(MonthDay, 12, 31, 0, 1, 4, FALSE)
FifthMondayFeb == SpecialDay(NthDayInMonth, 2, 5, 2, 1, 1, FALSE)

SpecialDayLists ==
    { <<>>, <<NewYearsDay, Christmas>>, <<FirstMondayJan, LastMondayMay>>, <<July4, July5>>,
      <<NewYearsEve>>, <<FifthMondayFeb, July4>>, <<July5, July4>> }

(* UseSpecialDays only matters to a list that holds a day from the weather file *)
ResolveConfigs ==
    { c \in [DST : DSTChoices, SpecialDays : SpecialDayLists,
              ApplyWeekendRule : BOOLEAN, UseSpecialDays : BOOLEAN] :
        c.UseSpecialDays \/ \E i \in 1..Len(c.SpecialDays) : c.SpecialDays[i].WthrFile }

(* the first year of a run: a common year starting on a Sunday or a leap *)
(* year starting on a Friday; the later years follow from it             *)
FirstYearTypes == { [Jan1 |-> 1, LeapYearAdd |-> 0], [Jan1 |-> 6, LeapYearAdd |-> 1] }

(* the tables of a year: MonWeekDay from January 1, WeekDayTypes of every day *)
RsTablesOf(y) ==
    [MonWeekDay |-> SetupWeekDaysByMonth(1, 1, y.Jan1, y.LeapYearAdd, ZeroMonths),
     WeekDayTypes |-> FillWeekDayTypes(ZeroDays, 1, 1, y.Jan1)]

(* rsWarn: the special days, by their place in the list, for which the last *)
(* SetSpecialDayDates issued the overwriting warning                        *)
(* history: whether the last resolution of each table in this year removed *)
(* a marking that the table held before the call                            *)
NothingCleared == [dst |-> FALSE, special |-> FALSE]

RemovedMarking(old, new) == \E d \in JDays : old[d] # 0 /\ new[d] = 0

(***************************************************************************)
(* Specification Spec: the host runs the environments of one input, day by *)
(* day, through GetNextEnvironment and InitializeWeather                   *)
(***************************************************************************)
(* one input: the weather file, the environments in input order (design   *)
(* days first), the simulation flags and the DST and special-day objects   *)
Scenario(file, exists, Environment, TotDesDays, DoWeathSim, DoDesDaySim, DoingSizing, IDFDaylightSaving, DST, SpecialDays) ==
    [file |-> file, WeatherFileExists |-> exists, Environment |-> Environment,
     TotDesDays |-> TotDesDays, DoWeathSim |-> DoWeathSim, DoDesDaySim |-> DoDesDaySim,
     DoingSizing |-> DoingSizing, IDFDaylightSaving |-> IDFDaylightSaving, DST |-> DST,
     SpecialDays |-> SpecialDays]

(* weather files *)
(* measured data of 2017-12-27 .. 2018-01-05, years in the header *)
ActualFile(EPWDST) ==
    WeatherFile(<<DataPeriod(2017, 12, 27, 2018, 1, 5, 4)>>, JGDateToJulian(2017, 12, 27),
                10, TRUE, FALSE, EPWDST)
(* a typical year, 365 days from January 1 *)
YearFile(EPWDST) ==
    WeatherFile(<<DataPeriod(0, 1, 1, 0, 12, 31, 1)>>, JGDateToJulian(2017, 1, 1),
                365, TRUE, FALSE, EPWDST)
(* the header of a typical year over only N days of records *)
TruncatedFile(N) ==
    WeatherFile(<<DataPeriod(0, 1, 1, 0, 12, 31, 1)>>, JGDateToJulian(2017, 1, 1),
                N, TRUE, FALSE, FALSE)
(* a data period of January 1..10 over N days of records *)
PartFile(N, LastDayComplete) ==
    WeatherFile(<<DataPeriod(0, 1, 1, 0, 1, 10, 1)>>, JGDateToJulian(2017, 1, 1),
                N, LastDayComplete, FALSE, FALSE)
(* two data periods, January 1..5 and 6..10, over 8 days of records *)
TwoPeriodFile ==
    WeatherFile(<<DataPeriod(0, 1, 1, 0, 1, 5, 1), DataPeriod(0, 1, 6, 0, 1, 10, 6)>>,
                JGDateToJulian(2017, 1, 1), 8, TRUE, FALSE, FALSE)

(* run periods on measured weather across the turn of 2017/2018 *)
ActualRun(startMonth, startDay, startYear, endDay, useDST, RollDayTypeOnRepeat) ==
    RunPeriod(startMonth, startDay, startYear, 1, endDay, 2018, TRUE, useDST, FALSE, TRUE,
              RollDayTypeOnRepeat, FALSE)
(* run periods on typical weather *)
TypicalRun(startMonth, startDay, endMonth, endDay, endYear, useDST, RollDayTypeOnRepeat) ==
    RunPeriod(startMonth, startDay, 2017, endMonth, endDay, endYear, TRUE, useDST, FALSE,
              FALSE, RollDayTypeOnRepeat, FALSE)

SummerDesignDay(n) == DesignDayEnvironment(n, 7, 21, 9, 1)
WinterDesignDay(n) == DesignDayEnvironment(n, 1, 21, 2, 0)

(* runs over the turn of the year on measured weather *)
ActualScenarios ==
    { Scenario(ActualFile(epw), TRUE,
               <<ActualRun(r.month, r.day, r.year, r.endDay, epw, roll)>>, 0,
               TRUE, TRUE, FALSE, FALSE, DSTJan, days) :
        r \in { [month |-> 12, day |-> 26, year |-> 2017, endDay |-> 3],
                [month |-> 12, day |-> 30, year |-> 2017, endDay |-> 6],
                [month |-> 12, day |-> 29, year |-> 2017, endDay |-> 3],
                [month |-> 12, day |-> 30, year |-> 2017, endDay |-> 2],
                [month |-> 12, day |-> 31, year |-> 2017, endDay |-> 2],
                [month |-> 1, day |-> 1, year |-> 2018, endDay |-> 3] },
        epw \in BOOLEAN, roll \in {TRUE},
        days \in { <<>>, <<FirstMondayJan>> } }

(* runs on a typical year, over the end of the file and within it *)
TypicalScenarios ==
    { Scenario(YearFile(TRUE), TRUE, <<TypicalRun(12, r.day, 1, 2, 2018, TRUE, roll)>>, 0,
               TRUE, TRUE, FALSE, idf, DSTJan, <<FirstMondayJan>>) :
        r \in { [day |-> 30], [day |-> 31] }, roll \in BOOLEAN, idf \in BOOLEAN }

(* several environments with the simulation flags of the host *)
ListScenarios ==
    { Scenario(YearFile(TRUE), f.exists, envs, f.TotDesDays, f.DoWeathSim, f.DoDesDaySim,
               f.DoingSizing, FALSE, DSTWrap, <<NewYearsDay>>) :
        envs \in { <<SummerDesignDay(1), WinterDesignDay(2),
                     TypicalRun(1, 1, 1, 2, 2017, TRUE, TRUE),
                     TypicalRun(1, 2, 1, 3, 2017, FALSE, TRUE)>> },
        f \in { [exists |-> TRUE, TotDesDays |-> 2, DoWeathSim |-> TRUE, DoDesDaySim |-> TRUE,
                 DoingSizing |-> FALSE],
                [exists |-> TRUE, TotDesDays |-> 2, DoWeathSim |-> TRUE, DoDesDaySim |-> FALSE,
                 DoingSizing |-> FALSE],
                [exists |-> TRUE, TotDesDays |-> 2, DoWeathSim |-> FALSE, DoDesDaySim |-> TRUE,
                 DoingSizing |-> FALSE],
                [exists |-> FALSE, TotDesDays |-> 2, DoWeathSim |-> TRUE, DoDesDaySim |-> TRUE,
                 DoingSizing |-> FALSE],
                [exists |-> FALSE, TotDesDays |-> 2, DoWeathSim |-> FALSE, DoDesDaySim |-> TRUE,
                 DoingSizing |-> FALSE],
                [exists |-> TRUE, TotDesDays |-> 2, DoWeathSim |-> TRUE, DoDesDaySim |-> TRUE,
                 DoingSizing |-> TRUE] } }
    \cup
    { Scenario(YearFile(TRUE), TRUE, envs, 1, TRUE, TRUE, FALSE, FALSE, DSTWrap, <<>>) :
        envs \in { <<SummerDesignDay(1)>>,
                   <<WinterDesignDay(1), TypicalRun(3, 1, 3, 2, 2017, FALSE, TRUE)>> } }

(* files that end before the run does, or hold no record of its first day *)
EndOfFileScenarios ==
    { Scenario(f.file, TRUE, <<TypicalRun(f.month, f.day, f.month, f.endDay, 2017, FALSE, TRUE)>>,
               0, TRUE, TRUE, FALSE, FALSE, DSTWrap, <<>>) :
        f \in { [file |-> TruncatedFile(5), month |-> 1, day |-> 4, endDay |-> 8],
                [file |-> TruncatedFile(5), month |-> 2, day |-> 1, endDay |-> 3],
                [file |-> TruncatedFile(0), month |-> 1, day |-> 1, endDay |-> 2],
                [file |-> PartFile(5, TRUE), month |-> 1, day |-> 4, endDay |-> 8],
                [file |-> PartFile(5, FALSE), month |-> 1, day |-> 4, endDay |-> 8],
                [file |-> PartFile(5, FALSE), month |-> 1, day |-> 9, endDay |-> 10],
                [file |-> PartFile(10, TRUE), month |-> 1, day |-> 8, endDay |-> 10],
                [file |-> PartFile(10, TRUE), month |-> 2, day |-> 1, endDay |-> 3],
                [file |-> PartFile(10, TRUE), month |-> 1, day |-> 9, endDay |-> 12],
                [file |-> TwoPeriodFile, month |-> 1, day |-> 7, endDay |-> 10] } }

(* a file of February 27 .. March 4 of a leap year, February 29 included,  *)
(* whose header allows leap years or not                                   *)
LeapFile(AllowsLeapYears) ==
    WeatherFile(<<DataPeriod(0, 2, 27, 0, 3, 4, 7)>>, JGDateToJulian(2016, 2, 27),
                7, TRUE, AllowsLeapYears, FALSE)

(* runs on typical weather over the end of February, in a common year and  *)
(* in a leap year                                                          *)
LeapFileScenarios ==
    { Scenario(LeapFile(allows), TRUE,
               <<RunPeriod(2, 27, year, 3, 2, year, TRUE, FALSE, FALSE, FALSE, TRUE, allows)>>,
               0, TRUE, TRUE, FALSE, FALSE, DSTWrap, <<>>) :
        year \in {2016, 2017}, allows \in BOOLEAN }

Scenarios ==
    ActualScenarios \cup TypicalScenarios \cup ListScenarios \cup EndOfFileScenarios
        \cup LeapFileScenarios

(* the weather manager's data after construction and the one-time input *)
InitialWeather(c) ==
    [Envrn |-> 0, Environment |-> c.Environment, FilePos |-> 1,
     LeapYearAdd |-> InitialLeapYearAdd, CurrentYearIsLeapYear |-> FALSE,
     UseDaylightSaving |-> TRUE, UseSpecialDays |-> TRUE, DaylightSavingIsActive |-> FALSE,
     DatesShouldBeReset |-> FALSE, StartDatesCycleShouldBeReset |-> FALSE,
     Jan1DatesShouldBeReset |-> FALSE, curSimDayForEndOfRunPeriod |-> 0,
     WeekDayTypes |-> ZeroDays, DSTIndex |-> ZeroDays, SpecialDayTypes |-> ZeroDays,
     TodayVariables |-> DayWeatherVariables, TomorrowVariables |-> DayWeatherVariables,
     Today |-> ZeroArrays, Tomorrow |-> ZeroArrays, CurDayOfWeek |-> 0,
     DayOfWeekTomorrow |-> 0, KindOfSim |-> 0, NumOfDayInEnvrn |-> 0, DayOfYear |-> 0,
     Year |-> 0, Month |-> 0, DayOfMonth |-> 0, DayOfWeek |-> 0, HolidayIndex |-> 0,
     DSTIndicator |-> 0, Available |-> TRUE, ErrorsFound |-> FALSE, fatal |-> FALSE,
     undefined |-> FALSE, ev |-> NoEvents]

(* the host before its first call: the environment counter has been reset *)
InitialHost ==
    [phase |-> "next", BeginEnvrnFlag |-> FALSE, BeginDayFlag |-> FALSE,
     EndEnvrnFlag |-> FALSE, WarmupFlag |-> FALSE, DayOfSim |-> 0, warmupDays |-> 0,
     resets |-> 0]

MainIdle ==
    /\ cfg = Scenario(TruncatedFile(0), FALSE, <<>>, 0, FALSE, FALSE, FALSE, FALSE, DSTWrap, <<>>)
    /\ wm = InitialWeather(cfg)
    /\ host = [InitialHost EXCEPT !.phase = "done", !.resets = MaxResets]
    /\ log = <<>>

(* no call of ResetWeekDaysByMonth has been made *)
NoReset ==
    [made |-> FALSE, EndMonth |-> 0, EndMonthDay |-> 0, Rollover |-> FALSE, MidSimReset |-> FALSE]

CalIdle ==
    /\ calIn = [StMon |-> 1, StDay |-> 1, StWeekDay |-> 1, LeapYearAdd |-> 0]
    /\ calTab = ZeroMonths
    /\ calCall = NoReset
    /\ calOld = ZeroMonths

RsInit ==
    /\ rsCfg \in ResolveConfigs
    /\ rsYear \in FirstYearTypes
    /\ rsMonWeekDay = RsTablesOf(rsYear).MonWeekDay
    /\ rsWeekDayTypes = RsTablesOf(rsYear).WeekDayTypes
    /\ rsDSTIndex = ZeroDays
    /\ rsSpecialDayTypes = ZeroDays
    /\ rsLast = "none"
    /\ rsCleared = NothingCleared
    /\ rsWarn = {}
    /\ rsRolled = FALSE
    /\ CalIdle
    /\ MainIdle
    /\ RdIdle
    /\ SuIdle
    /\ OpIdle
    /\ CwIdle
    /\ DdIdle
    /\ IpIdle
    /\ DtIdle
    /\ LnIdle

(* the simulated year rolls over: the next year starts one weekday later,  *)
(* two after a leap year                                                    *)
RsNewYear ==
    /\ rsLast \in {"dst", "special", "oob"}
    /\ \E leap \in {0, 1} :
         /\ ~(leap = 1 /\ rsYear.LeapYearAdd = 1)
         /\ rsYear' = [Jan1 |-> mod(rsYear.Jan1 + rsYear.LeapYearAdd, 7) + 1, LeapYearAdd |-> leap]
    /\ rsMonWeekDay' = RsTablesOf(rsYear').MonWeekDay
    /\ rsWeekDayTypes' = RsTablesOf(rsYear').WeekDayTypes
    /\ rsLast' = "none"
    /\ rsCleared' = NothingCleared
    /\ rsRolled' = TRUE
    /\ UNCHANGED <<rsCfg, rsDSTIndex, rsSpecialDayTypes, rsWarn>>
    /\ UNCHANGED notRsVars

(* DaylightSavingIsActive is set when the environment begins and keeps its *)
(* value: a later year resolves the period if and only if the first did,   *)
(* and a period resolved has marked its days                               *)
DaylightSavingWasActive == rsDSTIndex # ZeroDays

RsSetDSTDateRanges ==
    /\ rsLast \in {"none", "special", "oob"}
    /\ rsRolled => DaylightSavingWasActive
    /\ LET r == SetDSTDateRanges(rsMonWeekDay, rsDSTIndex, rsYear.LeapYearAdd, rsCfg.DST)
       IN  /\ rsDSTIndex' = r.DSTIndex
           /\ rsLast' = IF r.fatal THEN "fatal" ELSE "dst"
           /\ rsCleared' = [rsCleared EXCEPT !.dst = RemovedMarking(rsDSTIndex, r.DSTIndex)]
    /\ UNCHANGED <<rsCfg, rsYear, rsMonWeekDay, rsWeekDayTypes, rsSpecialDayTypes, rsWarn, rsRolled>>
    /\ UNCHANGED notRsVars

RsSetSpecialDayDates ==
    /\ rsLast \in {"none", "dst"}
    /\ (rsRolled /\ rsLast = "none") => ~DaylightSavingWasActive
    /\ LET r == SetSpecialDayDates(rsMonWeekDay, rsSpecialDayTypes, rsYear.LeapYearAdd,
                                   rsCfg.SpecialDays, rsCfg.UseSpecialDays,
                                   rsCfg.ApplyWeekendRule, rsWeekDayTypes)
       IN  /\ rsSpecialDayTypes' = r.SpecialDayTypes
           /\ rsLast' = IF r.fatal THEN "fatal" ELSE IF r.oob THEN "oob" ELSE "special"
           /\ rsCleared' = [rsCleared EXCEPT
                               !.special = RemovedMarking(rsSpecialDayTypes, r.SpecialDayTypes)]
           /\ rsWarn' = r.warn
    /\ UNCHANGED <<rsCfg, rsYear, rsMonWeekDay, rsWeekDayTypes, rsDSTIndex, rsRolled>>
    /\ UNCHANGED notRsVars

RsNext == RsNewYear \/ RsSetDSTDateRanges \/ RsSetSpecialDayDates

(* the resolver tables at rest, for the specifications that do not use them *)
RsIdle ==
    /\ rsCfg = [DST |-> DSTLast, SpecialDays |-> <<>>, ApplyWeekendRule |-> FALSE,
                UseSpecialDays |-> FALSE]
    /\ rsYear = [Jan1 |-> 1, LeapYearAdd |-> 0]
    /\ rsMonWeekDay = ZeroMonths
    /\ rsWeekDayTypes = ZeroDays
    /\ rsDSTIndex = ZeroDays
    /\ rsSpecialDayTypes = ZeroDays
    /\ rsLast = "none"
    /\ rsCleared = NothingCleared
    /\ rsWarn = {}
    /\ rsRolled = FALSE

(***************************************************************************)
(* Specification SpecCal: the weekday table built from an anchor date      *)
(***************************************************************************)

(* the anchors: start month, start day, start weekday, and the leap setting *)
Anchors ==
    { a \in [StMon : Months, StDay : 1..31, StWeekDay : 1..7, LeapYearAdd : {0, 1}] :
        validMonthDay(a.StMon, a.StDay, a.LeapYearAdd) }

CalInit ==
    /\ calIn \in Anchors
    /\ calTab = ZeroMonths
    /\ calCall = NoReset
    /\ calOld = ZeroMonths
    /\ RsIdle
    /\ MainIdle
    /\ RdIdle
    /\ SuIdle
    /\ OpIdle
    /\ CwIdle
    /\ DdIdle
    /\ IpIdle
    /\ DtIdle
    /\ LnIdle

(* SetupWeekDaysByMonth(StMon, StDay, StWeekDay, WeekDays) on a table of   *)
(* zeros, as GetRunPeriodData and ProcessEPWHeader call it; the walk reads *)
(* the module's LeapYearAdd, which is 0 until an environment sets it and   *)
(* keeps the value of the last environment afterwards.                     *)
CalSetup ==
    /\ calTab = ZeroMonths
    /\ calTab' = SetupWeekDaysByMonth(calIn.StMon, calIn.StDay, calIn.StWeekDay,
                                      calIn.LeapYearAdd, ZeroMonths)
    /\ UNCHANGED <<calIn, calCall, calOld>>
    /\ UNCHANGED notCalVars

(* the end dates of the run periods whose table is reset *)
EndDates == { <<12, 31>>, <<6, 30>>, <<2, 28>>, <<1, 31>> }

(* ResetWeekDaysByMonth(Environment(Envrn).MonWeekDay, LeapYearAdd,        *)
(* StartMonth, StartDay, EndMonth, EndDay, RollDayTypeOnRepeat,            *)
(* MidSimReset) on the table of a run period that starts on the anchor     *)
CalReset ==
    /\ calTab # ZeroMonths
    /\ ~calCall.made
    /\ \E e \in EndDates, Rollover \in BOOLEAN, MidSimReset \in BOOLEAN :
         /\ calCall' = [made |-> TRUE, EndMonth |-> e[1], EndMonthDay |-> e[2],
                        Rollover |-> Rollover, MidSimReset |-> MidSimReset]
         /\ calTab' = ResetWeekDaysByMonth(calTab, calIn.LeapYearAdd, calIn.StMon, calIn.StDay,
                                           e[1], e[2], Rollover, MidSimReset)
    /\ calOld' = calTab
    /\ UNCHANGED calIn
    /\ UNCHANGED notCalVars

CalNext == CalSetup \/ CalReset

(***************************************************************************)
(* Specifications                                                          *)
(***************************************************************************)
RdInit ==
    /\ DisplayWeatherMissingDataWarnings \in BOOLEAN
    /\ Missing = MissingData
    /\ Missed = MissingDataCounts
    /\ OutOfRange = RangeDataCounts
    /\ rdEnvrn = 0
    /\ rdHour = 0
    /\ rdRead = <<>>
    /\ rdTomorrow = <<>>
    /\ rdTomorrowVariables = [Month |-> 0, DayOfMonth |-> 0]
    /\ rdFatal = FALSE
    /\ CalIdle
    /\ RsIdle
    /\ MainIdle
    /\ LnIdle
    /\ DtIdle
    /\ IpIdle
    /\ DdIdle
    /\ CwIdle
    /\ OpIdle
    /\ SuIdle

LnInit ==
    /\ lnLine \in Lines
    /\ lnOut = NotInterpreted
    /\ CalIdle
    /\ RsIdle
    /\ MainIdle
    /\ RdIdle
    /\ SuIdle
    /\ OpIdle
    /\ CwIdle
    /\ DdIdle
    /\ IpIdle
    /\ DtIdle

LnInterpret ==
    /\ ~lnOut.read
    /\ \E empty \in EmptyReads : lnOut' = InterpretWeatherDataLine(lnLine, empty)
    /\ UNCHANGED lnLine
    /\ UNCHANGED notLnVars

LnNext == LnInterpret

DtInit ==
    /\ dtDate \in { date \in Dates : ValidDate(date) }
    /\ dtJulian = NotMade
    /\ dtBack = NotMade
    /\ dtDirect = NotMade
    /\ dtFromJulian = NotMade
    /\ dtLeap = NotMade
    /\ CalIdle
    /\ RsIdle
    /\ MainIdle
    /\ RdIdle
    /\ SuIdle
    /\ OpIdle
    /\ CwIdle
    /\ DdIdle
    /\ IpIdle
    /\ LnIdle

(* JGDate(GregorianToJulian, ...) or computeJulianDate *)
DtToJulian ==
    /\ ~dtJulian.made
    /\ \/ dtJulian' = Made(JGDateToJulian(dtDate.y, dtDate.m, dtDate.d))
       \/ dtJulian' = Made(computeJulianDate(dtDate.y, dtDate.m, dtDate.d))
    /\ UNCHANGED <<dtDate, dtBack, dtDirect, dtFromJulian, dtLeap>>
    /\ UNCHANGED notDtVars

(* JGDate(JulianToGregorian, ...) *)
DtToGregorian ==
    /\ dtJulian.made
    /\ ~dtBack.made
    /\ \E g \in { JGDateToGregorian(dtJulian.v) } :
           dtBack' = Made([y |-> g.yyyy, m |-> g.mm, d |-> g.dd])
    /\ UNCHANGED <<dtDate, dtJulian, dtDirect, dtFromJulian, dtLeap>>
    /\ UNCHANGED notDtVars

DtDayOfWeekOfDate ==
    /\ ~dtDirect.made
    /\ dtDirect' = Made(calculateDayOfWeek(dtDate.y, dtDate.m, dtDate.d))
    /\ UNCHANGED <<dtDate, dtJulian, dtBack, dtFromJulian, dtLeap>>
    /\ UNCHANGED notDtVars

DtDayOfWeekOfJulian ==
    /\ dtJulian.made
    /\ ~dtFromJulian.made
    /\ dtFromJulian' = Made(CalculateDayOfWeek(dtJulian.v))
    /\ UNCHANGED <<dtDate, dtJulian, dtBack, dtDirect, dtLeap>>
    /\ UNCHANGED notDtVars

DtIsLeapYear ==
    /\ ~dtLeap.made
    /\ dtLeap' = Made(isLeapYear(dtDate.y))
    /\ UNCHANGED <<dtDate, dtJulian, dtBack, dtDirect, dtFromJulian>>
    /\ UNCHANGED notDtVars

DtNext ==
    \/ DtToJulian
    \/ DtToGregorian
    \/ DtDayOfWeekOfDate
    \/ DtDayOfWeekOfJulian
    \/ DtIsLeapYear

IpInit ==
    /\ NumOfTimeStepInHour \in TimeSteps
    /\ Interpolation = <<>>
    /\ SolarInterpolation = <<>>
    /\ LastHourSet = FALSE
    /\ LastHr = HourSample(0, 0, 0, 0)
    /\ Wthr = <<>>
    /\ ipTomorrow = <<>>
    /\ ipDays = 0
    /\ ipOld = HourSample(0, 0, 0, 0)
    /\ CalIdle
    /\ RsIdle
    /\ MainIdle
    /\ RdIdle
    /\ SuIdle
    /\ OpIdle
    /\ CwIdle
    /\ DdIdle
    /\ LnIdle
    /\ DtIdle

IpSetupInterpolationValues ==
    /\ Interpolation = <<>>
    /\ Interpolation' = InterpolationWeights(NumOfTimeStepInHour)
    /\ SolarInterpolation' = SolarInterpolationWeights(NumOfTimeStepInHour)
    /\ UNCHANGED <<NumOfTimeStepInHour, LastHourSet, LastHr, Wthr, ipTomorrow, ipDays, ipOld>>
    /\ UNCHANGED notIpVars

(* the end of ReadEPlusWeatherForDay, once the records of a day are read *)
IpInterpolateDay ==
    /\ Interpolation # <<>>
    /\ ipDays < MaxDaysRead
    /\ \E day \in DaySamples :
           /\ Wthr' = day
           /\ ipTomorrow' = InterpolatedDay(NumOfTimeStepInHour, Interpolation, SolarInterpolation,
                                            day, LastHourSet, LastHr)
           /\ LastHourSet' = (LastHourSet \/ NumOfTimeStepInHour > 1)
           /\ LastHr' = IF NumOfTimeStepInHour > 1 THEN day[HoursInDay] ELSE LastHr
           /\ ipOld' = IF LastHourSet THEN LastHr ELSE day[HoursInDay]
    /\ ipDays' = ipDays + 1
    /\ UNCHANGED <<NumOfTimeStepInHour, Interpolation, SolarInterpolation>>
    /\ UNCHANGED notIpVars

IpNext == IpSetupInterpolationValues \/ IpInterpolateDay

DdInit ==
    /\ ddInput \in DesDayInputs
    /\ ddSun = <<>>
    /\ ddSchedule = <<>>
    /\ ddTomorrow = <<>>
    /\ ddWthr = <<>>
    /\ CalIdle
    /\ RsIdle
    /\ MainIdle
    /\ RdIdle
    /\ SuIdle
    /\ OpIdle
    /\ CwIdle
    /\ LnIdle
    /\ DtIdle
    /\ IpIdle

(* SetUpDesignDay, the radiation of the day *)
DdSetUpDesignDay ==
    /\ ddTomorrow = <<>>
    /\ \E day \in DesignDaySamples(ddInput.N), up \in SunUpRadiation :
           /\ ddSun' = [Hour \in 1..HoursInDay |-> [TS \in 1..ddInput.N |-> day[Hour][TS].CosZenith]]
           /\ ddSchedule' = [Hour \in 1..HoursInDay |-> [TS \in 1..ddInput.N |->
                                 [Beam |-> day[Hour][TS].Beam, Diff |-> day[Hour][TS].Diff]]]
           /\ ddTomorrow' = [Hour \in 1..HoursInDay |-> [TS \in 1..ddInput.N |->
                                 SolarOfTimestep(ddInput, day[Hour][TS], up)]]
    /\ ddWthr' = [f \in {"Beam", "Diff"} |-> BackFilled(ddTomorrow', ddInput.N, f)]
    /\ UNCHANGED ddInput
    /\ UNCHANGED notDdVars

DdNext == DdSetUpDesignDay

CwInit ==
    /\ cwIn \in CurrentInputs
    /\ cwClock = [HourOfDay |-> 1, TimeStep |-> 1]
    /\ cwCur = NoCurrentWeather
    /\ cwCalls = 0
    /\ cwFirst = NoCurrentWeather
    /\ CalIdle
    /\ RsIdle
    /\ MainIdle
    /\ RdIdle
    /\ SuIdle
    /\ OpIdle
    /\ LnIdle
    /\ DtIdle
    /\ IpIdle
    /\ DdIdle

(* ManageWeather's call of SetCurrentWeather, made again at the same       *)
(* timestep                                                                *)
CwSetCurrentWeather ==
    /\ cwCalls < MaxCalls
    /\ cwCur' = SetCurrentWeather(cwIn, cwClock, cwCur)
    /\ cwCalls' = cwCalls + 1
    /\ cwFirst' = IF cwCalls = 0 THEN cwCur' ELSE cwFirst
    /\ UNCHANGED <<cwIn, cwClock>>
    /\ UNCHANGED notCwVars

(* the host moves to the next timestep of the day *)
CwAdvanceTimeStep ==
    /\ cwCalls >= 1
    /\ ~(cwClock.HourOfDay = HoursInDay /\ cwClock.TimeStep = StepsInHour)
    /\ cwClock' = IF cwClock.TimeStep = StepsInHour
                  THEN [HourOfDay |-> cwClock.HourOfDay + 1, TimeStep |-> 1]
                  ELSE [cwClock EXCEPT !.TimeStep = @ + 1]
    /\ cwCalls' = 0
    /\ UNCHANGED <<cwIn, cwCur, cwFirst>>
    /\ UNCHANGED notCwVars

CwNext == CwSetCurrentWeather \/ CwAdvanceTimeStep

OpInit ==
    /\ opFile \in HeaderFiles
    /\ opRead = 0
    /\ HdLine = 1
    /\ StillLooking = TRUE
    /\ opProcessed = <<>>
    /\ opFatal = FALSE
    /\ CalIdle
    /\ RsIdle
    /\ MainIdle
    /\ RdIdle
    /\ SuIdle
    /\ LnIdle
    /\ DtIdle
    /\ IpIdle
    /\ DdIdle
    /\ CwIdle

(* one pass of while (StillLooking): read a line (Label9998 at the end of  *)
(* the file, Label9997 for a line ending in iUnicode_end), pass it by      *)
(* unless the header looked for is at its first non-space position, else   *)
(* ProcessEPWHeader and look for the next header                           *)
OpReadHeaderLine ==
    /\ StillLooking
    /\ ~opFatal
    /\ IF opRead >= Len(opFile)
       THEN /\ opFatal' = TRUE
            /\ UNCHANGED <<opRead, HdLine, StillLooking, opProcessed>>
       ELSE /\ opRead' = opRead + 1
            /\ LET Line == opFile[opRead + 1]
               IN  IF EndsUnicode(Line)
                   THEN /\ opFatal' = TRUE
                        /\ UNCHANGED <<HdLine, StillLooking, opProcessed>>
                   ELSE IF ~HeaderAtFirstNonSpace(Line, HdLine)
                   THEN UNCHANGED <<HdLine, StillLooking, opProcessed, opFatal>>
                   ELSE /\ opProcessed' = Append(opProcessed, [Header |-> HdLine, Line |-> opRead + 1])
                        /\ HdLine' = HdLine + 1
                        /\ StillLooking' = (HdLine + 1 # NumHeaders + 1)
                        /\ UNCHANGED opFatal
    /\ UNCHANGED opFile
    /\ UNCHANGED notOpVars

OpNext == OpReadHeaderLine

SuInit ==
    /\ suIn \in CrossingRunPeriods
    /\ suEnv = NoEnvironment
    /\ CalIdle
    /\ RsIdle
    /\ MainIdle
    /\ RdIdle
    /\ LnIdle
    /\ DtIdle
    /\ IpIdle
    /\ DdIdle
    /\ CwIdle
    /\ OpIdle

(* GetRunPeriodData and SetupEnvironmentTypes make the environment of the  *)
(* run period                                                              *)
SuSetupEnvironmentTypes ==
    /\ suEnv = NoEnvironment
    /\ suEnv' = RunPeriod(suIn.startDate[1], suIn.startDate[2], suIn.startYear,
                          suIn.endDate[1], suIn.endDate[2], suIn.startYear + suIn.years,
                          TRUE, TRUE, FALSE, FALSE, TRUE, suIn.WFAllowsLeapYears)
    /\ UNCHANGED suIn
    /\ UNCHANGED notSuVars

SuNext == SuSetupEnvironmentTypes

vars == <<calVars, rsVars, mainVars, rdVars, lnVars, dtVars, ipVars, ddVars, cwVars, opVars, suVars>>

SpecCal == CalInit /\ [][CalNext]_vars

SpecResolve == RsInit /\ [][RsNext]_vars

SpecRead == RdInit /\ [][RdNext]_vars

SpecLine == LnInit /\ [][LnNext]_vars

SpecDate == DtInit /\ [][DtNext]_vars

SpecInterp == IpInit /\ [][IpNext]_vars

SpecDesignDay == DdInit /\ [][DdNext]_vars

SpecCurrent == CwInit /\ [][CwNext]_vars

SpecOpen == OpInit /\ [][OpNext]_vars

SpecSetup == SuInit /\ [][SuNext]_vars

(***************************************************************************)
(* Specification Spec: actions of the host's loop over the environments    *)
(***************************************************************************)
Init ==
    /\ cfg \in Scenarios
    /\ wm = InitialWeather(cfg)
    /\ host = InitialHost
    /\ log = <<>>
    /\ CalIdle
    /\ RsIdle
    /\ RdIdle
    /\ SuIdle
    /\ OpIdle
    /\ CwIdle
    /\ DdIdle
    /\ IpIdle
    /\ DtIdle
    /\ LnIdle

(* a reset that leaves the counter on the first environment *)
ResetEnvironmentCounterToOne(w) == [w EXCEPT !.Envrn = 1]

(* ResetEnvironmentCounter *)
ResetEnvironmentCounter(w) == [w EXCEPT !.Envrn = 0]

(* a fatal error, or an access outside a table, ends the run *)
Stopped(w) == w.fatal \/ w.undefined

(* the host asks for the next environment; it leaves the loop when none is *)
(* available and passes over an environment its flags do not ask for       *)
HostGetNextEnvironment ==
    /\ host.phase = "next"
    /\ \E w \in {GetNextEnvironment(cfg, wm)} :
       LET passed == IF w.KindOfSim = ksRunPeriodWeather THEN ~cfg.DoWeathSim
                     ELSE ~cfg.DoDesDaySim
       IN  /\ wm' = w
           /\ log' = IF Stopped(w) THEN log
                     ELSE Append(log, [Envrn |-> w.Envrn, Available |-> w.Available])
           /\ host' = IF Stopped(w) THEN [host EXCEPT !.phase = "stopped"]
                      ELSE IF ~w.Available \/ w.ErrorsFound THEN [host EXCEPT !.phase = "done"]
                      ELSE IF passed THEN host
                      ELSE [host EXCEPT !.phase = "dayStart", !.BeginEnvrnFlag = TRUE,
                                        !.EndEnvrnFlag = FALSE, !.WarmupFlag = TRUE,
                                        !.DayOfSim = 0, !.warmupDays = 0]
    /\ UNCHANGED <<cfg, notMainVars>>

(* the first time step of a day: the host counts the day, raises           *)
(* BeginDayFlag and calls InitializeWeather                                *)
HostFirstTimeStep ==
    /\ host.phase = "dayStart"
    /\ LET h == [host EXCEPT !.DayOfSim = @ + 1, !.BeginDayFlag = TRUE]
       IN  \E w \in {InitializeWeather(cfg, h, wm)} :
           /\ wm' = w
           /\ host' = [h EXCEPT !.BeginDayFlag = FALSE, !.BeginEnvrnFlag = FALSE,
                                !.phase = IF Stopped(w) THEN "stopped" ELSE "midDay"]
    /\ UNCHANGED <<cfg, log, notMainVars>>

(* the last time step of a day: EndEnvrnFlag is raised on the last day     *)
(* after warmup, InitializeWeather is called, and a warmup day may have    *)
(* converged, which restarts the day count                                 *)
HostLastTimeStep ==
    /\ host.phase = "midDay"
    /\ \E converged \in BOOLEAN :
        /\ converged => host.WarmupFlag
        /\ (host.WarmupFlag /\ ~converged) => host.warmupDays + 1 < MaxWarmupDays
        /\ LET h == [host EXCEPT
                       !.EndEnvrnFlag = ~host.WarmupFlag /\ host.DayOfSim = wm.NumOfDayInEnvrn]
           IN  \E w \in {InitializeWeather(cfg, h, wm)} :
               /\ wm' = w
               /\ host' = [h EXCEPT
                             !.phase = IF Stopped(w) THEN "stopped"
                                       ELSE IF h.EndEnvrnFlag THEN "next" ELSE "dayStart",
                             !.WarmupFlag = @ /\ ~converged,
                             !.DayOfSim = IF converged THEN 0 ELSE @,
                             !.warmupDays = IF host.WarmupFlag THEN @ + 1 ELSE @]
    /\ UNCHANGED <<cfg, log, notMainVars>>

(* the host starts another pass over the environments *)
HostResetEnvironmentCounter ==
    /\ host.phase = "done"
    /\ host.resets < MaxResets
    /\ ~wm.ErrorsFound
    /\ wm' = ResetEnvironmentCounter(wm)
    /\ host' = [host EXCEPT !.phase = "next", !.resets = @ + 1]
    /\ log' = <<>>
    /\ UNCHANGED <<cfg, notMainVars>>

Next ==
    \/ HostGetNextEnvironment
    \/ HostFirstTimeStep
    \/ HostLastTimeStep
    \/ HostResetEnvironmentCounter

Spec == Init /\ [][Next]_vars

(***************************************************************************)
(* Properties of the environment scheduler (specification Spec)            *)
(***************************************************************************)
CurrentEnvironment == wm.Environment[wm.Envrn]

(* the host has made the day-start call of a day of a weather-file run period *)
AfterDayStart == host.phase = "midDay" /\ wm.KindOfSim = ksRunPeriodWeather

(* C1: after the day-start processing of every day of a weather-file run   *)
(* period, rollover included, Today's DST flag and holiday index are the   *)
(* entries of the DST and special-day tables for Today's day of the year.  *)
C1_TodayMatchesActiveTables ==
    AfterDayStart =>
        /\ wm.TodayVariables.DaylightSavingIndex = wm.DSTIndex[wm.TodayVariables.DayOfYear]
        /\ wm.TodayVariables.HolidayIndex = wm.SpecialDayTypes[wm.TodayVariables.DayOfYear]

(* the day start of a January 1 that an actual-weather run period, begun   *)
(* on another date, has reached from December 31                           *)
YearCrossing ==
    /\ AfterDayStart
    /\ CurrentEnvironment.ActualWeather
    /\ CurrentEnvironment.StartMonth # 1 \/ CurrentEnvironment.StartDay # 1
    /\ ~host.WarmupFlag
    /\ wm.Month = 1 /\ wm.DayOfMonth = 1

(* C2: in an actual-weather run period that does not start on January 1,   *)
(* the day start of each January 1 resolves the weekday table, the DST     *)
(* markings (when DST is active) and the special-day markings once, and no *)
(* other call of the environment resolves the weekday table again.         *)
C2_OneResolutionPerYearCrossing ==
    (host.phase \in {"midDay", "dayStart", "next"} /\ wm.KindOfSim = ksRunPeriodWeather
     /\ wm.Envrn > 0 /\ CurrentEnvironment.ActualWeather) =>
        IF YearCrossing
        THEN /\ wm.ev.resets = 1
             /\ wm.ev.special = 1
             /\ wm.ev.dst = IF wm.DaylightSavingIsActive THEN 1 ELSE 0
        ELSE wm.ev.resets = 0

(* C4: in a run-period environment for which daylight saving is inactive,  *)
(* no day of the year is marked in the DST table, and neither Today nor    *)
(* Tomorrow, read in this environment, carries a DST flag of 1.            *)
C4_NoDSTLeftFromEarlierEnvironment ==
    (AfterDayStart /\ ~wm.DaylightSavingIsActive) =>
        /\ wm.DSTIndex = ZeroDays
        /\ wm.TodayVariables.DaylightSavingIndex = 0
        /\ wm.TomorrowVariables.DaylightSavingIndex = 0

(* C5: the day-start block of a weather-file environment reads one day     *)
(* into Tomorrow when the simulation is out of warmup and the day is not   *)
(* the last one; otherwise it reads nothing and leaves Tomorrow as it      *)
(* found it.                                                               *)
C5_TomorrowRefilledOncePerDay ==
    AfterDayStart =>
        IF ~host.WarmupFlag /\ host.DayOfSim < wm.NumOfDayInEnvrn
        THEN wm.ev.reads = 1
        ELSE /\ wm.ev.reads = 0
             /\ wm.Tomorrow = wm.ev.Tomorrow
             /\ wm.TomorrowVariables = wm.ev.TomorrowVariables
C5_Witness ==
    /\ AfterDayStart /\ ~host.WarmupFlag /\ host.DayOfSim < wm.NumOfDayInEnvrn
    /\ wm.ev.reads = 1
    /\ wm.TomorrowVariables # wm.ev.TomorrowVariables

(* C6: after a day start Today holds the header and every array that      *)
(* Tomorrow held when the day started, also when Tomorrow has been         *)
(* refilled since, and no other call changes Today.                        *)
C6_TodayIsTomorrowOfDayStart ==
    /\ [](host.phase = "midDay" =>
            /\ wm.TodayVariables = wm.ev.TomorrowVariables
            /\ \A a \in DayArrays : wm.Today[a] = wm.ev.Tomorrow[a])
    /\ [][host.phase # "dayStart" =>
            (wm'.Today = wm.Today /\ wm'.TodayVariables = wm.TodayVariables)]_vars
C6_Witness ==
    /\ AfterDayStart /\ wm.ev.reads = 1
    /\ wm.Today = wm.ev.Tomorrow
    /\ wm.Tomorrow # wm.Today
    /\ \E h \in Hours : wm.Today["OutDryBulbTemp"][h] # 0

(* every environment can run: design days and weather simulation asked     *)
(* for, a weather file attached, no sizing in progress                     *)
AllRunnable ==
    cfg.DoDesDaySim /\ cfg.DoWeathSim /\ cfg.WeatherFileExists /\ ~cfg.DoingSizing

(* C7: when every environment can run, the calls of GetNextEnvironment     *)
(* since the counter was reset have made the environments 1, 2, ...        *)
(* current in order, each available; the call after the last environment   *)
(* reported none available and set the counter to 0.                       *)
C7_EnvironmentsInIndexOrder ==
    AllRunnable =>
        /\ Len(log) <= Len(cfg.Environment) + 1
        /\ \A i \in 1..Len(log) :
              IF i <= Len(cfg.Environment)
              THEN log[i] = [Envrn |-> i, Available |-> TRUE]
              ELSE log[i] = [Envrn |-> 0, Available |-> FALSE] /\ wm.Envrn = 0
C7_Witness ==
    /\ AllRunnable /\ Len(cfg.Environment) >= 3
    /\ Len(log) = Len(cfg.Environment) + 1
    /\ host.resets = 1

(* C8: the search for the first day rewinds at most once and ends: on the  *)
(* record of the start date, which is then read into Tomorrow, or in a     *)
(* fatal error; a second end of file ends it in the fatal error.           *)
C8_FirstDaySearchEnds ==
    wm.ev.searches > 0 =>
        /\ wm.ev.NumRewinds <= 1
        /\ wm.ev.found # wm.ev.searchFatal
        /\ wm.ev.EndOfFiles >= 2 => (wm.ev.searchFatal /\ wm.fatal)
        /\ wm.ev.searchFatal => wm.fatal
        /\ (wm.ev.found /\ ~wm.fatal) =>
              /\ wm.TomorrowVariables.Month = CurrentEnvironment.StartMonth
              /\ wm.TomorrowVariables.DayOfMonth = CurrentEnvironment.StartDay
              /\ CurrentEnvironment.MatchYear =>
                    wm.TomorrowVariables.Year = CurrentEnvironment.StartYear
C8_Witness ==
    /\ wm.ev.searches = 1 /\ wm.ev.NumRewinds = 1 /\ wm.ev.EndOfFiles = 2
    /\ wm.ev.searchFatal /\ host.phase = "stopped"

(* C9: end of file at a day boundary while reading the next day: the       *)
(* reader rewinds and reads the file's first day if and only if the file   *)
(* has one data period and that period has the days of a year; otherwise   *)
(* the run ends in a fatal error.                                          *)
C9_RewindOnlyForOneFullYear ==
    wm.ev.eof =>
        IF Len(cfg.file.DataPeriods) = 1 /\ cfg.file.DataPeriods[1].NumDays >= NumDaysInYear
        THEN /\ wm.ev.rewound /\ ~wm.fatal
             /\ wm.TomorrowVariables.Month = RecordDate(cfg.file, 1).WMonth
             /\ wm.TomorrowVariables.DayOfMonth = RecordDate(cfg.file, 1).WDay
             /\ wm.FilePos = 2
        ELSE ~wm.ev.rewound /\ wm.fatal
C9_Witness ==
    /\ wm.ev.eof /\ wm.ev.rewound /\ cfg.file.NumDataDays = 365
    /\ wm.Month = 12 /\ wm.DayOfMonth = 31
    /\ wm.TomorrowVariables.Month = 1 /\ wm.TomorrowVariables.DayOfMonth = 1

(* weekday of the 1st of month m in a year of the anchor's leap setting in *)
(* which the anchor's date falls on the anchor's weekday                   *)
TrueFirstOfMonth(a, m) ==
    LET leap == a.LeapYearAdd = 1
        delta == calculateDayOfYear(m, 1, leap) - calculateDayOfYear(a.StMon, a.StDay, leap)
    IN  ((a.StWeekDay - 1 + delta + 371) % 7) + 1

(* C10: for every anchor and both leap settings the table holds, for each  *)
(* of the 12 months, a value in 1..7 equal to the weekday of the 1st of    *)
(* that month in the anchor's year (forward and backward walk).            *)
C10_WeekdayTableMatchesCalendar ==
    (calTab # ZeroMonths /\ ~calCall.made) =>
        \A m \in Months : calTab[m] \in 1..7 /\ calTab[m] = TrueFirstOfMonth(calIn, m)

(***************************************************************************)
(* Full overwrite of the DST and special-day tables                        *)
(***************************************************************************)
(* the days of the DST period that rsCfg.DST describes in the current year *)
DSTPeriodDays ==
    LET dst == rsCfg.DST
        st == DSTDate(dst.StDateType, dst.StMon, dst.StDay, dst.StWeekDay, rsMonWeekDay,
                      rsYear.LeapYearAdd)
        en == DSTDate(dst.EnDateType, dst.EnMon, dst.EnDay, dst.EnWeekDay, rsMonWeekDay,
                      rsYear.LeapYearAdd)
        first == OrdinalDay(st.Mon, st.Day, rsYear.LeapYearAdd)
        last == OrdinalDay(en.Mon, en.Day, rsYear.LeapYearAdd)
    IN  IF last >= first THEN first..last ELSE (first..366) \cup (1..last)

(* the days of the table that a special day of n days resolved to start on *)
(* JDay covers: the count runs on into January after day 365 (366 in a    *)
(* leap year); a weekend shift from December 31 of a leap year can resolve *)
(* to day 368, which is no day of the table                               *)
CoveredDays(JDay, n, LeapYearAdd) ==
    LET yearLen == IF LeapYearAdd = 0 THEN 365 ELSE 366
    IN  IF JDay > yearLen + 1 THEN {}
        ELSE { ((JDay + k - 1) % yearLen) + 1 : k \in 0..(n - 1) }

(* the days that the honoured special days of rsCfg cover in the current year *)
SpecialDayDays ==
    UNION { LET sd == rsCfg.SpecialDays[i]
                st == SpecialDayStart(sd, rsMonWeekDay, rsYear.LeapYearAdd,
                                      rsCfg.ApplyWeekendRule, rsWeekDayTypes)
            IN  IF (sd.WthrFile /\ ~rsCfg.UseSpecialDays) \/ st.err THEN {}
                ELSE CoveredDays(st.JDay, sd.Duration, rsYear.LeapYearAdd)
            : i \in 1..Len(rsCfg.SpecialDays) }

(* C3: every invocation of the DST resolution and of the special-day       *)
(* resolution fully overwrites the previous markings: after the call a day *)
(* of the year is marked if and only if the current specifications,        *)
(* resolved against the current weekday table, mark it, whatever the table *)
(* held before the call.                                                   *)
C3_ResolutionOverwritesTable ==
    /\ rsLast = "dst" =>
           /\ { d \in JDays : rsDSTIndex[d] = 1 } = DSTPeriodDays
           /\ { d \in JDays : rsDSTIndex[d] = 0 } = JDays \ DSTPeriodDays
    /\ rsLast \in {"special", "oob"} =>
           { d \in JDays : rsSpecialDayTypes[d] # 0 } = SpecialDayDays

(* both tables re-resolved in a later year, each call removing a marking   *)
(* of the year before                                                      *)
C3_Witness == rsLast = "special" /\ rsCleared.dst /\ rsCleared.special

(***************************************************************************)
(* Properties of the weekday table against the calendar (SpecCal)          *)
(***************************************************************************)
(* the weekday the table implies for day d of month m *)
ImpliedWeekDay(WeekDays, m, d) == ((WeekDays[m] - 1 + d - 1) % 7) + 1

(* the anchor of calIn is a date of year y and carries its true weekday *)
TrueAnchorIn(y) ==
    /\ validMonthDay(calIn.StMon, calIn.StDay, IF isLeapYear(y) THEN 1 ELSE 0)
    /\ calculateDayOfWeek(y, calIn.StMon, calIn.StDay) = calIn.StWeekDay

(* C11: for every date (y, m, d) from 1583 on and every anchor day of the  *)
(* same month given with its true weekday, the weekday the table implies   *)
(* for day d of month m is the weekday calculateDayOfWeek(y, m, d) gives.  *)
C11_TableAgreesWithZellerInAnchorMonth ==
    (calTab # ZeroMonths /\ ~calCall.made) =>
        \A y \in DateYears :
            TrueAnchorIn(y) =>
                \A d \in 1..31 :
                    validMonthDay(calIn.StMon, d, IF isLeapYear(y) THEN 1 ELSE 0) =>
                        ImpliedWeekDay(calTab, calIn.StMon, d)
                            = calculateDayOfWeek(y, calIn.StMon, d)
(* the table built from February 29 of a leap year with its true weekday *)
C11_Witness ==
    /\ calTab # ZeroMonths /\ ~calCall.made
    /\ calIn.StMon = 2 /\ calIn.StDay = 29
    /\ \E y \in DateYears : TrueAnchorIn(y)

(***************************************************************************)
(* Properties of the resolver (SpecResolve)                                *)
(***************************************************************************)
(* the day of the year the start of the DST period of rsCfg resolves to *)
DSTStartDay ==
    LET st == DSTDate(rsCfg.DST.StDateType, rsCfg.DST.StMon, rsCfg.DST.StDay,
                      rsCfg.DST.StWeekDay, rsMonWeekDay, rsYear.LeapYearAdd)
    IN  OrdinalDay(st.Mon, st.Day, rsYear.LeapYearAdd)

(* the day of the year the end of the DST period of rsCfg resolves to *)
DSTEndDay ==
    LET en == DSTDate(rsCfg.DST.EnDateType, rsCfg.DST.EnMon, rsCfg.DST.EnDay,
                      rsCfg.DST.EnWeekDay, rsMonWeekDay, rsYear.LeapYearAdd)
    IN  OrdinalDay(en.Mon, en.Day, rsYear.LeapYearAdd)

DSTMarkedDays == { d \in JDays : rsDSTIndex[d] = 1 }

(* C12: after DST resolution the DST-active days are one run from the      *)
(* resolved start day to the resolved end day inclusive; when the end day  *)
(* is smaller than the start day the run goes from the start day to the    *)
(* last entry of the table and from day 1 to the end day; no other day is  *)
(* marked.                                                                 *)
C12_DSTDaysAreOneRun ==
    rsLast = "dst" =>
        /\ DSTStartDay \in DSTMarkedDays /\ DSTEndDay \in DSTMarkedDays
        /\ \A d \in JDays : rsDSTIndex[d] \in {0, 1}
        /\ IF DSTEndDay >= DSTStartDay
           THEN /\ Cardinality(DSTMarkedDays) = DSTEndDay - DSTStartDay + 1
                /\ \A d \in DSTMarkedDays : DSTStartDay <= d /\ d <= DSTEndDay
           ELSE /\ Cardinality(DSTMarkedDays) = (366 - DSTStartDay + 1) + DSTEndDay
                /\ \A d \in JDays \ DSTMarkedDays : DSTEndDay < d /\ d < DSTStartDay
(* a period that wraps over the end of the year, resolved over a table     *)
(* that held the markings of the year before                               *)
C12_Witness ==
    /\ rsLast = "dst" /\ DSTEndDay < DSTStartDay
    /\ rsCleared.special
    /\ 1 \in DSTMarkedDays /\ 366 \in DSTMarkedDays /\ DSTEndDay + 1 \notin DSTMarkedDays

(* the days that special day i of rsCfg covers in the current year, none   *)
(* when it is not honoured or does not resolve                              *)
SpecialDayCover(i) ==
    LET sd == rsCfg.SpecialDays[i]
        st == SpecialDayStart(sd, rsMonWeekDay, rsYear.LeapYearAdd, rsCfg.ApplyWeekendRule,
                              rsWeekDayTypes)
    IN  IF (sd.WthrFile /\ ~rsCfg.UseSpecialDays) \/ st.err THEN {}
        ELSE CoveredDays(st.JDay, sd.Duration, rsYear.LeapYearAdd)

(* the special days of rsCfg that cover day d, by their place in the list *)
CoveringSpecialDays(d) == { i \in 1..Len(rsCfg.SpecialDays) : d \in SpecialDayCover(i) }

FirstOf(S) == CHOOSE i \in S : \A j \in S : i <= j

(* C13: when two special-day definitions resolve to the same day of the    *)
(* year, the resolution issues its (non-fatal) warning for the later one   *)
(* and the day keeps the day type of the definition assigned first.        *)
C13_OverlapWarnsAndKeepsFirst ==
    rsLast = "special" =>
        \A d \in JDays :
            Cardinality(CoveringSpecialDays(d)) >= 2 =>
                /\ \E j \in rsWarn : j \in CoveringSpecialDays(d) /\ j # FirstOf(CoveringSpecialDays(d))
                /\ rsSpecialDayTypes[d]
                       = rsCfg.SpecialDays[FirstOf(CoveringSpecialDays(d))].DayType

LastOf(S) == CHOOSE i \in S : \A j \in S : i >= j

(* the first day special day j of rsCfg resolves to, 0 when it is not      *)
(* honoured or does not resolve                                             *)
SpecialDayFirstDay(j) ==
    LET sd == rsCfg.SpecialDays[j]
        st == SpecialDayStart(sd, rsMonWeekDay, rsYear.LeapYearAdd, rsCfg.ApplyWeekendRule,
                              rsWeekDayTypes)
    IN  IF (sd.WthrFile /\ ~rsCfg.UseSpecialDays) \/ st.err THEN 0 ELSE st.JDay

(* C13 as the code has it: a day covered by several special-day            *)
(* definitions takes the day type of the last of them in the list; the     *)
(* (non-fatal) overwriting warning is issued for a definition whose first  *)
(* day an earlier definition has marked, and only for a definition that    *)
(* overlaps an earlier one.                                                *)
C13_OverlapWarnsAndLastWins ==
    rsLast = "special" =>
        /\ \A d \in JDays :
              CoveringSpecialDays(d) # {} =>
                  rsSpecialDayTypes[d] = rsCfg.SpecialDays[LastOf(CoveringSpecialDays(d))].DayType
        /\ \A j \in 1..Len(rsCfg.SpecialDays) :
              (\E i \in 1..(j - 1) : SpecialDayFirstDay(j) \in SpecialDayCover(i)) => j \in rsWarn
        /\ \A j \in rsWarn :
              \E i \in 1..(j - 1) : SpecialDayCover(i) \cap SpecialDayCover(j) # {}
(* two definitions of different day types cover July 5; the warning is out *)
C13_Witness ==
    /\ rsLast = "special" /\ rsWarn = {2}
    /\ \E d \in JDays :
          /\ CoveringSpecialDays(d) = {1, 2}
          /\ rsCfg.SpecialDays[1].DayType # rsCfg.SpecialDays[2].DayType
          /\ rsSpecialDayTypes[d] = rsCfg.SpecialDays[2].DayType

(* special day i of rsCfg is a single-day holiday on a fixed date that the *)
(* resolution honours                                                       *)
SingleFixedDate(i) ==
    LET sd == rsCfg.SpecialDays[i]
    IN  sd.DateType = MonthDay /\ sd.Duration = 1 /\ ~(sd.WthrFile /\ ~rsCfg.UseSpecialDays)

(* the day of the year of the date of special day i, and its weekday *)
FixedDateDay(i) ==
    OrdinalDay(rsCfg.SpecialDays[i].Month, rsCfg.SpecialDays[i].Day, rsYear.LeapYearAdd)

FixedDateWeekDay(i) == rsWeekDayTypes[FixedDateDay(i)]

(* the day k days after day d, counted on into January after December 31 *)
DaysLater(d, k) == ((d + k - 1) % (365 + rsYear.LeapYearAdd)) + 1

(* no other special day of rsCfg covers a day of D *)
OnlyDefinitionOn(i, D) ==
    \A j \in 1..Len(rsCfg.SpecialDays) : j # i => SpecialDayCover(j) \cap D = {}

C15_RestartKeepsTable ==
    (calCall.made /\ ~calCall.Rollover /\ ~calCall.MidSimReset) =>
        \A m \in Months : calTab[m] = calOld[m]

(* C16: re-anchoring the table under the "roll forward" policy makes the   *)
(* weekday the new table implies for the run period's start date the       *)
(* weekday after the one the old table implied for the run period's end    *)
(* date, for every start day of the month.                                 *)
C16_RollForwardFollowsEndDate ==
    (calCall.made /\ calCall.Rollover) =>
        ImpliedWeekDay(calTab, calIn.StMon, calIn.StDay)
            = (ImpliedWeekDay(calOld, calCall.EndMonth, calCall.EndMonthDay) % 7) + 1


(***************************************************************************)
(* Properties of the missing and out-of-range data (SpecRead)              *)
(***************************************************************************)
(* the step reads a record *)
ReadsRecord == Len(rdRead') = Len(rdRead) + 1 /\ ~rdFatal'

(* the record the step reads, and the values the step stores for it *)
RecordRead == rdRead'[Len(rdRead')]
ValuesStored == rdTomorrow'[Len(rdTomorrow')]

(* the most recent dry-bulb among the records read that is neither the     *)
(* sentinel nor out of range, 6.0 when there is none                       *)
LastValidDryBulb(read) ==
    LET valid == { i \in 1..Len(read) : read[i].DryBulb >= -900 /\ read[i].DryBulb <= 700 }
    IN  IF valid = {} THEN 60 ELSE read[CHOOSE i \in valid : \A j \in valid : j <= i].DryBulb

(* C17: reading a record whose dry-bulb is the missing sentinel (99.9 or   *)
(* more) stores the most recent valid dry-bulb read in the environment,    *)
(* 6.0 if there is none, increases the missing dry-bulb counter by one     *)
(* and leaves the out-of-range dry-bulb counter as it was.                 *)
C17_MissingDryBulbTakesLastValid ==
    [][(ReadsRecord /\ RecordRead.DryBulb >= 999) =>
          /\ ValuesStored.OutDryBulbTemp = LastValidDryBulb(rdRead)
          /\ Missed'.DryBulb = Missed.DryBulb + 1
          /\ OutOfRange'.DryBulb = OutOfRange.DryBulb]_vars

(* the field of the record each counter belongs to, its sentinel, and the  *)
(* range the reader tests it against                                        *)
RecordField ==
    [StnPres |-> "AtmPress", DryBulb |-> "DryBulb", DewPoint |-> "DewPoint", RelHumid |-> "RelHum",
     WindSpd |-> "WindSpeed", WindDir |-> "WindDir", TotSkyCvr |-> "TotalSkyCover",
     OpaqSkyCvr |-> "OpaqueSkyCover", SnowDepth |-> "SnowDepth", Albedo |-> "Albedo",
     LiquidPrecip |-> "LiquidPrecip", DirectRad |-> "DirectRad", DiffuseRad |-> "DiffuseRad"]

SentinelOf ==
    [StnPres |-> 9999990, DryBulb |-> 999, DewPoint |-> 999, RelHumid |-> 9990,
     WindSpd |-> 9990, WindDir |-> 9990, TotSkyCvr |-> 990, OpaqSkyCvr |-> 990,
     SnowDepth |-> 9990, Albedo |-> 9990, LiquidPrecip |-> 9990, DirectRad |-> 99990,
     DiffuseRad |-> 99990]

InRange(f, v) ==
    CASE f \in {"DryBulb", "DewPoint"} -> v >= -900 /\ v <= 700
      [] f = "RelHumid" -> v >= 0 /\ v <= 1100
      [] f = "StnPres" -> v > 310000 /\ v <= 1200000
      [] f = "WindDir" -> v >= 0 /\ v <= 3600
      [] f = "WindSpd" -> v >= 0 /\ v <= 400
      [] OTHER -> v >= 0

RadiationFields == {"DirectRad", "DiffuseRad"}

(* a record holds a missing value of a field when the reader takes the     *)
(* value for the sentinel, and an out-of-range value when the value is not *)
(* missing and outside the range                                            *)
IsMissingIn(f, raw) == SetPossibleMissing(raw)[RecordField[f]] >= SentinelOf[f]
IsOutOfRangeIn(f, raw) == ~IsMissingIn(f, raw) /\ ~InRange(f, raw[RecordField[f]])

(* the counters of the run: those of the radiation are kept only when the  *)
(* missing data warnings are displayed                                      *)
Tallied(f) == f \in RadiationFields => DisplayWeatherMissingDataWarnings

(* C18: for every tallied field, the direct and diffuse radiation          *)
(* included, the missing counter equals the number of records read in the  *)
(* environment so far that hold a missing value of the field, and the      *)
(* out-of-range counter the number of those that hold an out-of-range      *)
(* value of it: each occurrence adds exactly one to its own counter.       *)
C18_CountersEqualOccurrences ==
    /\ \A f \in DOMAIN SentinelOf :
         Tallied(f) => Missed[f] = Cardinality({ i \in 1..Len(rdRead) : IsMissingIn(f, rdRead[i]) })
    /\ \A f \in RangeFields :
         Tallied(f) => OutOfRange[f] = Cardinality({ i \in 1..Len(rdRead) : IsOutOfRangeIn(f, rdRead[i]) })

(* the values stored: the array of each field the reader only counts *)
StoredField ==
    [DryBulb |-> "OutDryBulbTemp", DewPoint |-> "OutDewPointTemp", RelHumid |-> "OutRelHum",
     WindDir |-> "WindDir", WindSpd |-> "WindSpeed"]

(* a value of the record that is out of range and below the sentinel *)
BelowSentinelOutOfRange(f, raw) ==
    raw[RecordField[f]] < SentinelOf[f] /\ ~InRange(f, raw[RecordField[f]])

(* the step counts the field as out of range, and as nothing else *)
OnlyCountedOutOfRange(f) ==
    OutOfRange'[f] = OutOfRange[f] + 1 /\ Missed'[f] = Missed[f]

C20_EnvironmentStartsOver ==
    (rdEnvrn >= 1 /\ rdRead = <<>>) =>
        /\ \A f \in DOMAIN Missed : Missed[f] = 0
        /\ \A f \in DOMAIN OutOfRange : OutOfRange[f] = 0
        /\ Missing = InitialMissing
        /\ Missing.DryBulb = 60 /\ Missing.DewPoint = 30 /\ Missing.StnPres = StdBaroPress

(* the second environment is about to read its first record after a first  *)
(* environment whose first record had a missing dry-bulb and whose last    *)
(* one a wind speed out of range                                            *)
C20_Witness ==
    /\ rdEnvrn = 2 /\ rdRead = <<>> /\ rdHour = 1
    /\ Len(rdTomorrow) = HoursInDay
    /\ rdTomorrow[1].OutDryBulbTemp = 60
    /\ rdTomorrow[HoursInDay].WindSpeed = 500

(***************************************************************************)
(* Properties of the checks on run period and records (Spec)               *)
(***************************************************************************)
(* the run period of the environment has been checked against the file *)
RunPeriodChecked ==
    /\ wm.Envrn > 0
    /\ wm.KindOfSim = ksRunPeriodWeather
    /\ CurrentEnvironment.KindOfEnvrn = ksRunPeriodWeather
    /\ cfg.DoWeathSim /\ cfg.WeatherFileExists /\ ~wm.ErrorsFound

(* the day lies outside the data period: Julian dates on measured weather, *)
(* days of the year on typical weather                                      *)
OutsidePeriod(actual, day, p) ==
    IF actual THEN day < p.DataStJDay \/ day > p.DataEnJDay
    ELSE \/ day < OrdinalDay(p.StMon, p.StDay, wm.LeapYearAdd)
         \/ day > OrdinalDay(p.EnMon, p.EnDay, wm.LeapYearAdd)

OutsideEveryPeriod(actual, day) ==
    \A i \in 1..Len(cfg.file.DataPeriods) : OutsidePeriod(actual, day, cfg.file.DataPeriods[i])

(* a data period from January 1 to December 31 *)
FullYearPeriod ==
    \E i \in 1..Len(cfg.file.DataPeriods) :
        /\ cfg.file.DataPeriods[i].StMon = 1 /\ cfg.file.DataPeriods[i].StDay = 1
        /\ cfg.file.DataPeriods[i].EnMon = 12 /\ cfg.file.DataPeriods[i].EnDay = 31

StartOrEndOutside ==
    IF CurrentEnvironment.ActualWeather
    THEN \/ OutsideEveryPeriod(TRUE, CurrentEnvironment.StartDate)
         \/ OutsideEveryPeriod(TRUE, CurrentEnvironment.EndDate)
    ELSE /\ ~FullYearPeriod
         /\ \/ OutsideEveryPeriod(FALSE, CurrentEnvironment.StartJDay)
            \/ OutsideEveryPeriod(FALSE, CurrentEnvironment.EndJDay)

(* C21: on entry to a weather file run period whose start date or end date *)
(* lies outside every data period of the file (on typical weather: and no  *)
(* data period spans the year), the run ends in a fatal error before any   *)
(* day of the environment is searched for or read.                         *)
C21_RunPeriodOutsideFileIsFatal ==
    (RunPeriodChecked /\ StartOrEndOutside) =>
        /\ wm.fatal /\ host.phase = "stopped"
        /\ wm.ev.reads = 0 /\ wm.ev.searches = 0

(* measured weather of 2017-12-27 on, asked for from 2017-12-26 *)
C21_Witness ==
    /\ RunPeriodChecked /\ CurrentEnvironment.ActualWeather
    /\ CurrentEnvironment.StartDate < cfg.file.DataPeriods[1].DataStJDay
    /\ wm.fatal /\ host.phase = "stopped"

(***************************************************************************)
(* Properties of the records of a day (SpecRead)                           *)
(***************************************************************************)
(* the i-th record read in the environment does not carry the hour of its  *)
(* place, or not the date of the first record of the day                   *)
Mismatched(i) ==
    \/ rdRead[i].WHour # i
    \/ rdRead[i].WMonth # rdRead[1].WMonth
    \/ rdRead[i].WDay # rdRead[1].WDay

(* C22: while the records of a day are read, a record that carries a wrong *)
(* hour, or a month or day other than that of the day being read, ends the *)
(* run in a fatal error: it is the last record read, and no day record is  *)
(* built from it.                                                           *)
C22_MismatchedRecordIsFatal ==
    \A i \in 1..Len(rdRead) : Mismatched(i) => (rdFatal /\ i = Len(rdRead))


(***************************************************************************)
(* C23: a data line whose optional trailing field (precipitable water,     *)
(* aerosol depth, snow depth, days-since-snow, albedo, liquid              *)
(* precipitation) is malformed, truncated or missing is accepted: the      *)
(* field takes its sentinel value 999 and the run does not terminate       *)
(***************************************************************************)
(* the text the line holds for trailing field k, if it holds one *)
HasText(k) == k - FirstTrailing + 2 <= Len(lnLine)
TextOf(k) == lnLine[k - FirstTrailing + 2]

(* the field is missing or truncated (the line ends before it, or holds    *)
(* nothing for it) or malformed (its text is no number)                    *)
Defective(k) == ~HasText(k) \/ TextOf(k) = "" \/ ListRead(TextOf(k)).err

C23_DefectiveTrailingFieldTakesSentinel ==
    lnOut.read =>
        /\ ~lnOut.fatal
        /\ \A k \in TrailingFields : Defective(k) => lnOut.RField[k] = 999


(***************************************************************************)
(* Properties of the date functions (SpecDate)                             *)
(***************************************************************************)
(* C24: for every valid date (y, m, d) with y >= 1583, converting it to a  *)
(* Julian day number and back returns exactly (y, m, d).                   *)
C24_JulianRoundTrip ==
    dtBack.made => (dtDate.y >= 1583 /\ dtBack.v = dtDate)

(* February 29 of a century leap year converted and converted back *)
C24_Witness ==
    /\ dtBack.made
    /\ dtDate = [y |-> 2000, m |-> 2, d |-> 29]

(* C25: for every valid date (y, m, d) with y >= 1583, the weekday         *)
(* computed directly from (y, m, d) equals the weekday computed from the   *)
(* date's Julian day number, and both are one of the 7 values 1..7         *)
(* (1 = Sunday).                                                           *)
C25_WeekdaysAgree ==
    /\ dtDirect.made => dtDirect.v \in 1..7
    /\ dtFromJulian.made => dtFromJulian.v \in 1..7
    /\ (dtDirect.made /\ dtFromJulian.made) => dtDirect.v = dtFromJulian.v
    /\ (dtDirect.made /\ dtDate = [y |-> 2024, m |-> 9, d |-> 1]) => dtDirect.v = 1

(* both weekdays computed for a Saturday, where Zeller's congruence gives 0 *)
C25_Witness ==
    /\ dtDirect.made /\ dtFromJulian.made
    /\ dtDate = [y |-> 2024, m |-> 8, d |-> 31]
    /\ dtFromJulian.v = 7

(* C26: isLeapYear(y) is true if and only if y is divisible by 4 and not   *)
(* (divisible by 100 and not divisible by 400); in particular 1900 is not  *)
(* a leap year, 2000 and 2024 are, 2023 is not.                            *)
C26_LeapYearRule ==
    dtLeap.made =>
        /\ dtLeap.v = (dtDate.y % 4 = 0 /\ ~(dtDate.y % 100 = 0 /\ dtDate.y % 400 # 0))
        /\ dtDate.y \in {1900, 2023} => ~dtLeap.v
        /\ dtDate.y \in {2000, 2024} => dtLeap.v

(* isLeapYear applied to 1900 *)
C26_Witness ==
    /\ dtLeap.made
    /\ dtDate.y = 1900
    /\ ~dtLeap.v


(***************************************************************************)
(* Properties of the values of the timesteps (SpecInterp)                  *)
(***************************************************************************)
(* the hourly values of the hour before hour Hour of the day read last *)
PrevHourOf(Hour) == IF Hour > 1 THEN Wthr[Hour - 1] ELSE ipOld

Interpolated == ipDays >= 1 /\ NumOfTimeStepInHour > 1

Least(a, b) == IF a <= b THEN a ELSE b
Greatest(a, b) == IF a >= b THEN a ELSE b

(* the value lies within [min(prevHour, curHour), max(prevHour, curHour)] *)
WithinHours(v, prevHour, curHour) ==
    /\ RatioLeq(Ratio(Least(prevHour, curHour), 1), v)
    /\ RatioLeq(v, Ratio(Greatest(prevHour, curHour), 1))

(* C27: for every linearly interpolated field and every hour of a day      *)
(* record, each sub-hourly value lies within [min(prevHour, curHour),      *)
(* max(prevHour, curHour)], where prevHour is the value of the preceding   *)
(* hour.                                                                   *)
C27_LinearValuesWithinHours ==
    Interpolated =>
        \A f \in LinearFields : \A Hour \in 1..HoursInDay : \A TS \in 1..NumOfTimeStepInHour :
            WithinHours(ipTomorrow[Hour][TS][f], PrevHourOf(Hour)[f], Wthr[Hour][f])

(* the direction of an angle, 0 <= direction < 360, for angles over N *)
DirectionOf(v) == Ratio(((v.n % (360 * v.d)) + 360 * v.d) % (360 * v.d), v.d)

(* the degrees between two directions along the shorter arc, over d; both  *)
(* directions are over d                                                   *)
ArcBetween(a, b) ==
    LET across == IF a.n >= b.n THEN a.n - b.n ELSE b.n - a.n
    IN  Ratio(Least(across, 360 * a.d - across), a.d)

(* the value is on the shorter arc from prevHour to curHour: the degrees   *)
(* from prevHour to it and from it to curHour add up to the shorter arc,   *)
(* which is at most 180 degrees                                            *)
OnShorterArc(v, prevHour, curHour) ==
    LET from == DirectionOf(Ratio(prevHour * v.d, v.d))
        to == DirectionOf(Ratio(curHour * v.d, v.d))
        at == DirectionOf(v)
    IN  /\ ArcBetween(from, at).n + ArcBetween(at, to).n = ArcBetween(from, to).n
        /\ ArcBetween(from, to).n <= 180 * v.d

(* C28: wind-direction interpolation between two adjacent hourly samples   *)
(* moves along the shorter arc and never through more than 180 degrees of  *)
(* angular travel; for example, interpolating from 350 to 10 at weight 0.5 *)
(* yields 0, not 180.                                                      *)
C28_WindDirectionAlongShorterArc ==
    Interpolated =>
        \A Hour \in 1..HoursInDay : \A TS \in 1..NumOfTimeStepInHour :
            /\ OnShorterArc(ipTomorrow[Hour][TS]["WindDir"], PrevHourOf(Hour)["WindDir"],
                            Wthr[Hour]["WindDir"])
            /\ (PrevHourOf(Hour)["WindDir"] = 350 /\ Wthr[Hour]["WindDir"] = 10
                    /\ 2 * TS = NumOfTimeStepInHour)
                   => ipTomorrow[Hour][TS]["WindDir"].n = 0

(* the hourly values of the hour after hour Hour of the day read last *)
NextHourOf(Hour) == Wthr[IF Hour = HoursInDay THEN 1 ELSE Hour + 1]

(* the steps from the half hour to timestep TS *)
StepsFromHalf(TS) ==
    IF 2 * TS >= NumOfTimeStepInHour THEN TS - NumOfTimeStepInHour \div 2
    ELSE NumOfTimeStepInHour \div 2 - TS

(* the solar value the claim gives timestep TS of hour Hour: the weight    *)
(* 1 - steps / N on the hour, the rest on the hour before or after         *)
ClaimedSolarValue(f, Hour, TS) ==
    LET N == NumOfTimeStepInHour
        steps == StepsFromHalf(TS)
        other == IF 2 * TS < N THEN PrevHourOf(Hour)[f] ELSE NextHourOf(Hour)[f]
    IN  Ratio((N - steps) * Wthr[Hour][f] + steps * other, N)

(* C29: for an even number N of timesteps per hour, the solar value at the *)
(* half-hour timestep (t = N/2) is exactly the hourly value, and at every  *)
(* other timestep the weight on the current hour drops by 1/N per step     *)
(* away from the half hour with the remaining weight given to the previous *)
(* hour before the half hour and to the next hour after it, the three      *)
(* weights summing to 1.                                                   *)
C29_SolarWeightsCentredOnHalfHour ==
    (Interpolated /\ NumOfTimeStepInHour % 2 = 0) =>
        /\ \A TS \in 1..NumOfTimeStepInHour :
               /\ SolarInterpolation[TS] = 2 * NumOfTimeStepInHour - 2 * StepsFromHalf(TS)
               /\ \A f \in SolarFields : \A Hour \in 1..HoursInDay :
                      RatioEq(ipTomorrow[Hour][TS][f], ClaimedSolarValue(f, Hour, TS))
        /\ \A f \in SolarFields : \A Hour \in 1..HoursInDay :
               RatioEq(ipTomorrow[Hour][NumOfTimeStepInHour \div 2][f], Ratio(Wthr[Hour][f], 1))

(* six timesteps an hour, and an hour with sun between hours of another    *)
(* value before and after it                                               *)
C29_Witness ==
    /\ Interpolated
    /\ NumOfTimeStepInHour = 6
    /\ ipDays = 2
    /\ Wthr[1]["BeamSolarRad"] = 100
    /\ ipOld["BeamSolarRad"] = 300
    /\ Wthr[2]["BeamSolarRad"] = 0
    /\ ipTomorrow[1][1]["BeamSolarRad"] # ipTomorrow[1][5]["BeamSolarRad"]


(***************************************************************************)
(* Properties of the design day (SpecDesignDay)                            *)
(***************************************************************************)
SunDownAt(Hour, TS) == ddSun[Hour][TS] < SunIsUpValue

DesignDayTimesteps == { <<Hour, TS>> : Hour \in 1..HoursInDay, TS \in 1..ddInput.N }

WeekDayImplied(MonWeekDay, Mon, Day) == mod(MonWeekDay[Mon] + Day - 2, 7) + 1

(* C32: after the day-start processing of every day of a weather-file run  *)
(* period, re-resolution included, Today's weekday is the weekday that the *)
(* environment's per-month weekday table implies for Today's month and     *)
(* day, on a January 1 that follows a year rollover as on any other day.   *)
C32_TodayWeekdayMatchesTable ==
    AfterDayStart =>
        wm.TodayVariables.DayOfWeek =
            WeekDayImplied(CurrentEnvironment.MonWeekDay, wm.Month, wm.DayOfMonth)


(* C33: every read or write of the 366-entry day-of-year tables made by    *)
(* SetDSTDateRanges and SetSpecialDayDates uses an index in 1..366: no     *)
(* resolution, in a leap or a common year, with the weekend rule, a        *)
(* holiday of several days or a DST range past the end of the year, ends   *)
(* with an access outside the tables.                                      *)
C33_DayTablesIndexedWithin366 == rsLast # "oob"


(* GetNextEnvironment has entered a weather-file run period *)
RunPeriodEntered ==
    /\ host.phase = "dayStart"
    /\ host.BeginEnvrnFlag
    /\ wm.KindOfSim = ksRunPeriodWeather

(* the days of the year from the first day of the run period through its   *)
(* last day, as offsets from the first day                                 *)
RunPeriodOffsets ==
    LET env == CurrentEnvironment
        JDay5Start == OrdinalDay(env.StartMonth, env.StartDay, wm.LeapYearAdd)
        JDay5End == OrdinalDay(env.EndMonth, env.EndDay, wm.LeapYearAdd)
    IN  [first |-> JDay5Start, last |-> (JDay5End - JDay5Start + 366) % 366]

(* C34: after a run-period environment is entered, every day of the year   *)
(* from the run period's first day through its last day has a weekday type *)
(* in 1..7: the first day the environment's start weekday, each following  *)
(* day the next weekday; the last day is not left with weekday type 0.     *)
C34_RunPeriodDaysHaveWeekdays ==
    RunPeriodEntered =>
        \A off \in 0..RunPeriodOffsets.last :
            wm.WeekDayTypes[((RunPeriodOffsets.first - 1 + off) % 366) + 1] =
                ((CurrentEnvironment.DayOfWeek - 1 + off) % 7) + 1


(* the file holds records of a February 29 and the reader is to skip them *)
Feb29NotProcessed ==
    /\ \E i \in 1..cfg.file.NumDataDays :
           RecordDate(cfg.file, i).WMonth = 2 /\ RecordDate(cfg.file, i).WDay = 29
    /\ ~wm.CurrentYearIsLeapYear \/ ~cfg.file.WFAllowsLeapYears

(* the day start of a February 28 has read the day that follows *)
AfterFeb28DayStart ==
    /\ AfterDayStart
    /\ ~Stopped(wm)
    /\ ~host.WarmupFlag
    /\ wm.TodayVariables.Month = 2
    /\ wm.TodayVariables.DayOfMonth = 28

(* C35: when the file holds February 29 records and the current year is    *)
(* not a leap year or the file does not allow leap years, the read that    *)
(* follows February 28 discards the whole day of February 29 and delivers  *)
(* March 1 as Tomorrow, with the records of March 1 and the weekday one    *)
(* after that of February 28, in two passes of the retry loop; no read of  *)
(* a day takes more than two passes.                                       *)
C35_Feb29SkippedForMarch1 ==
    /\ (AfterDayStart /\ Feb29NotProcessed) => wm.ev.passes <= 2
    /\ (AfterFeb28DayStart /\ Feb29NotProcessed) =>
           /\ wm.TomorrowVariables.Month = 3
           /\ wm.TomorrowVariables.DayOfMonth = 1
           /\ wm.TomorrowVariables.DayOfWeek = mod(wm.TodayVariables.DayOfWeek, 7) + 1
           /\ wm.ev.passes = 2
           /\ \E i \in 1..cfg.file.NumDataDays :
                  /\ RecordDate(cfg.file, i).WMonth = 3 /\ RecordDate(cfg.file, i).WDay = 1
                  /\ \A a \in CopiedArrays :
                         wm.Tomorrow[a] = [h \in Hours |-> RecordValue(cfg.file, i, h)]

(* February 29 has been skipped after February 28 in a file that allows    *)
(* leap years, read in a common year                                       *)
C35_Witness ==
    /\ AfterFeb28DayStart
    /\ Feb29NotProcessed
    /\ cfg.file.WFAllowsLeapYears
    /\ wm.TomorrowVariables.Month = 3
    /\ wm.ev.passes = 2


(***************************************************************************)
(* Properties of the header search (SpecOpen)                              *)
(***************************************************************************)
(* the line begins, after any spaces, with the text of the header *)
IsHeader(Line, h) ==
    \E n \in 1..Len(Line) : Line[n] = Header[h] /\ \A k \in 1..(n - 1) : Line[k] = " "

(* the eight headers are found in the file in the fixed order *)
RECURSIVE HeadersInOrder(_, _, _)
HeadersInOrder(f, from, h) ==
    IF h > NumHeaders THEN TRUE
    ELSE IF from > Len(f) THEN FALSE
    ELSE IF IsHeader(f[from], h) THEN HeadersInOrder(f, from + 1, h + 1)
    ELSE HeadersInOrder(f, from + 1, h)

OpenCompleted == ~StillLooking /\ ~opFatal

CalendarDays(in) ==
    LET first == computeJulianDate(in.startYear, in.startDate[1], in.startDate[2])
        last == computeJulianDate(in.startYear + in.years, in.endDate[1], in.endDate[2])
        leapDays == { y \in in.startYear..(in.startYear + in.years) :
                        /\ isLeapYear(y)
                        /\ first <= computeJulianDate(y, 2, 29)
                        /\ computeJulianDate(y, 2, 29) <= last }
    IN  last - first + 1 - (IF in.WFAllowsLeapYears THEN 0 ELSE Cardinality(leapDays))

(* C37: for a typical-weather run period that crosses one or more year     *)
(* boundaries the environment's total day count is the number of calendar  *)
(* days from the start date to the end date inclusive, whatever the start  *)
(* date.                                                                   *)
C37_TotalDaysAreCalendarDays ==
    suEnv # NoEnvironment => suEnv.TotalDays = CalendarDays(suIn)


(* the first day of an environment has been interpolated: LastHourSet was  *)
(* false when it was read                                                  *)
FirstDayInterpolated == ipDays = 1 /\ NumOfTimeStepInHour > 1

(* C38: on the first day read for an environment from hourly data with     *)
(* more than one timestep per hour, every sub-hourly value of hour 1 of    *)
(* each linearly interpolated field equals the field's value of hour 1.    *)
C38_FirstHourOfFirstDayIsFlat ==
    FirstDayInterpolated =>
        \A f \in LinearFields : \A TS \in 1..NumOfTimeStepInHour :
            RatioEq(ipTomorrow[1][TS][f], Ratio(Wthr[1][f], 1))


(* C39: an Nth-weekday-in-month daylight saving or special-day date that    *)
(* cannot be resolved (the month has fewer than N such weekdays) ends the  *)
(* run in a fatal error before any simulated day is processed: the fatal   *)
(* error is never raised by the resolution made after the simulated year   *)
(* has rolled over                                                         *)
C39_UnresolvedNthDayFatalBeforeRun == rsLast = "fatal" => ~rsRolled

=============================================================================
